---- MODULE Spec2Model ----
(***************************************************************************)
(* RepoInsights: the page (src/src/app/page.tsx), the server action        *)
(* (src/src/app/actions.ts) and the GitHub service                         *)
(* (src/src/services/github.ts) as one state machine.                      *)
(*                                                                         *)
(* Strings the code inspects character by character (the repository input  *)
(* matched by the form's regular expression, repository full names, the    *)
(* X-RateLimit-Reset header) are sequences of one-character strings.       *)
(* Strings the code only compares or copies (logins, e-mails, tokens) are  *)
(* TLA+ strings; the code units of a token, which fetch reads in the       *)
(* Authorization header, are given by CodeUnitsOf.  An optional value is a *)
(* sequence of length 0 or 1.                                              *)
(***************************************************************************)
EXTENDS Integers, Sequences, FiniteSets, TLC

(***************************************************************************)
(* Bounds of the model.                                                    *)
(***************************************************************************)
\* longest base contributor list explored with concurrent detail fetches
MaxBaseLen == 2
\* how many entries beyond the processing cap the longest capped list holds
MaxOverCap == 2
\* how many entries beyond per_page the longest user-repositories body holds
MaxOverPage == 1
\* how many calls of the action (submissions and direct calls) a behaviour of
\* the page makes at most
MaxCalls == 2

(***************************************************************************)
(* Program constants.                                                      *)
(***************************************************************************)
\* contributorsData.slice(0, 50)
ProcessCap == 50
\* per_page=5 of the user-repositories request
ReposPerPage == 5

(***************************************************************************)
(* Generic helpers.                                                        *)
(***************************************************************************)
None == <<>>
Some(x) == <<x>>

StartsWith(s, p) == Len(s) >= Len(p) /\ SubSeq(s, 1, Len(p)) = p
DropN(s, n) == SubSeq(s, n + 1, Len(s))

RECURSIVE SelectIdx(_, _, _)
\* the indices i of 1..n, ascending, with keep[i]
SelectIdx(keep, i, n) ==
  IF i > n THEN <<>>
  ELSE (IF keep[i] THEN <<i>> ELSE <<>>) \o SelectIdx(keep, i + 1, n)

(***************************************************************************)
(* page.tsx: the repository pattern of formSchema and onSubmit             *)
(*   /^(?:https?:\/\/github\.com\/)?([a-zA-Z0-9_-]+\/[a-zA-Z0-9_-]+)       *)
(*     (?:\.git)?\/?$/                                                     *)
(***************************************************************************)
NameChar ==
  { "a","b","c","d","e","f","g","h","i","j","k","l","m",
    "n","o","p","q","r","s","t","u","v","w","x","y","z",
    "A","B","C","D","E","F","G","H","I","J","K","L","M",
    "N","O","P","Q","R","S","T","U","V","W","X","Y","Z",
    "0","1","2","3","4","5","6","7","8","9","_","-" }

HttpsPrefix ==
  << "h","t","t","p","s",":","/","/","g","i","t","h","u","b",".","c","o","m","/" >>
HttpPrefix ==
  << "h","t","t","p",":","/","/","g","i","t","h","u","b",".","c","o","m","/" >>
DotGit == << ".","g","i","t" >>

\* length of the longest prefix of s made of [a-zA-Z0-9_-]
NameRun(s) ==
  CHOOSE n \in 0..Len(s) :
    /\ \A i \in 1..n : s[i] \in NameChar
    /\ (n = Len(s) \/ s[n + 1] \notin NameChar)

\* (?:\.git)?\/?$ on the rest of the input
TailMatches(v) ==
  \/ v = <<>>
  \/ v = DotGit
  \/ v = << "/" >>
  \/ v = DotGit \o << "/" >>

\* ([a-zA-Z0-9_-]+\/[a-zA-Z0-9_-]+)(?:\.git)?\/?$ anchored at the start of t.
\* Neither "/" nor "." is in the character class, so a shorter run than the
\* longest one can never be followed by a match: backtracking finds nothing new.
BodyMatch(t) ==
  LET a == NameRun(t)
      u == DropN(t, a + 1)
      b == NameRun(u)
  IN  IF a >= 1 /\ Len(t) > a /\ t[a + 1] = "/" /\ b >= 1 /\ TailMatches(DropN(u, b))
      THEN [matched |-> TRUE, group1 |-> SubSeq(t, 1, a + 1 + b)]
      ELSE [matched |-> FALSE, group1 |-> <<>>]

\* The mutant of RepoMatch: repoMatch[0] (the whole match) in place of repoMatch[1].
RepoMatchWholeMatch(s) ==
  LET viaHttps == IF StartsWith(s, HttpsPrefix)
                  THEN BodyMatch(DropN(s, Len(HttpsPrefix)))
                  ELSE [matched |-> FALSE, group1 |-> <<>>]
      viaHttp  == IF StartsWith(s, HttpPrefix)
                  THEN BodyMatch(DropN(s, Len(HttpPrefix)))
                  ELSE [matched |-> FALSE, group1 |-> <<>>]
      bare     == BodyMatch(s)
  IN  IF viaHttps.matched \/ viaHttp.matched \/ bare.matched
      THEN [matched |-> TRUE, group1 |-> s]
      ELSE bare

\* values.repo.match(...): the optional URL prefix is tried first (greedy ?),
\* then the pattern without it.
RepoMatch(s) ==
  LET viaHttps == IF StartsWith(s, HttpsPrefix)
                  THEN BodyMatch(DropN(s, Len(HttpsPrefix)))
                  ELSE [matched |-> FALSE, group1 |-> <<>>]
      viaHttp  == IF StartsWith(s, HttpPrefix)
                  THEN BodyMatch(DropN(s, Len(HttpPrefix)))
                  ELSE [matched |-> FALSE, group1 |-> <<>>]
  IN  IF viaHttps.matched THEN viaHttps
      ELSE IF viaHttp.matched THEN viaHttp
      ELSE BodyMatch(s)

\* formSchema: repo is min(1) and matches the pattern, token is min(1)
FormValid(repo, token) ==
  /\ Len(repo) >= 1
  /\ RepoMatch(repo).matched
  /\ token # ""

(***************************************************************************)
(* github.ts: values.                                                      *)
(***************************************************************************)
\* The URL of a request, by its parts.
Url(endpoint, login, repo) == [endpoint |-> endpoint, login |-> login, repo |-> repo]
NoUrl == Url("", "", <<>>)

\* An Error, by the parts its message is built from.  The kind "none" is no
\* Error at all; the kind "empty" is an Error whose message is the empty string.
NoMsg ==
  [kind |-> "none", context |-> <<>>, status |-> 0, statusText |-> "",
   resetKind |-> "none", resetTime |-> <<>>, issues |-> <<>>, url |-> NoUrl,
   quoted |-> ""]
Msg(kind) == [NoMsg EXCEPT !.kind = kind]
\* a message string that is falsy
IsEmptyMessage(msg) == msg.kind = "empty"

\* Response.ok
IsOk(resp) == resp.status >= 200 /\ resp.status <= 299

Digit == { "0","1","2","3","4","5","6","7","8","9" }
DigitVal(c) ==
  CASE c = "0" -> 0 [] c = "1" -> 1 [] c = "2" -> 2 [] c = "3" -> 3 [] c = "4" -> 4
    [] c = "5" -> 5 [] c = "6" -> 6 [] c = "7" -> 7 [] c = "8" -> 8 [] c = "9" -> 9

\* StrWhiteSpaceChar: WhiteSpace and LineTerminator.  A code unit outside
\* printable ASCII is written by its code point.
WhiteSpace ==
  { " ", "\t", "\n", "\r", "\f", "U+000B", "U+00A0", "U+1680",
    "U+2000", "U+2001", "U+2002", "U+2003", "U+2004", "U+2005", "U+2006",
    "U+2007", "U+2008", "U+2009", "U+200A", "U+2028", "U+2029", "U+202F",
    "U+205F", "U+3000", "U+FEFF" }

RECURSIVE TrimStart(_)
\* the string without its leading white space
TrimStart(s) ==
  IF s # <<>> /\ s[1] \in WhiteSpace THEN TrimStart(Tail(s)) ELSE s

RECURSIVE StripZeros(_)
\* a run of digits without its leading zeros
StripZeros(d) ==
  IF Len(d) > 1 /\ d[1] = "0" THEN StripZeros(Tail(d)) ELSE d

\* parseInt(s, 10): leading white space skipped, an optional sign, then the
\* longest run of digits; NaN when there is none.  The number is given by its
\* sign and its decimal digits (it is the double nearest to that numeral, which
\* is the numeral itself up to 2^53).
ParseInt(s) ==
  LET u   == TrimStart(s)
      neg == u # <<>> /\ u[1] = "-"
      t   == IF u # <<>> /\ u[1] \in {"-", "+"} THEN Tail(u) ELSE u
      n   == CHOOSE k \in 0..Len(t) :
               /\ \A i \in 1..k : t[i] \in Digit
               /\ (k = Len(t) \/ t[k + 1] \notin Digit)
  IN  IF n = 0 THEN [nan |-> TRUE, neg |-> FALSE, digits |-> <<>>]
      ELSE [nan |-> FALSE, neg |-> neg, digits |-> StripZeros(SubSeq(t, 1, n))]

RECURSIVE NumeralLeq(_, _)
\* a <= b for two runs of digits without leading zeros
NumeralLeq(a, b) ==
  IF Len(a) # Len(b) THEN Len(a) < Len(b)
  ELSE IF a = <<>> THEN TRUE
  ELSE IF a[1] # b[1] THEN DigitVal(a[1]) < DigitVal(b[1])
  ELSE NumeralLeq(Tail(a), Tail(b))

\* TimeClip: a time value is a Date when it is within 8.64e15 ms of the epoch,
\* so a number of seconds when it is within 8640000000000.
MaxDateSeconds == << "8","6","4","0","0","0","0","0","0","0","0","0","0" >>
IsDate(seconds) == NumeralLeq(seconds.digits, MaxDateSeconds)

RECURSIVE ModDay(_, _)
\* the numeral d, after the digits already read as acc, modulo 86400
ModDay(d, acc) ==
  IF d = <<>> THEN acc
  ELSE ModDay(Tail(d), (10 * acc + DigitVal(d[1])) % 86400)

\* the second of the UTC day of the instant given in seconds since the epoch
SecondOfDay(seconds) ==
  LET m == ModDay(seconds.digits, 0)
  IN  IF seconds.neg THEN (86400 - m) % 86400 ELSE m

\* the instant seconds \div 1000
ThousandthOf(seconds) ==
  [seconds EXCEPT !.digits = IF Len(seconds.digits) <= 3 THEN << "0" >>
                             ELSE SubSeq(seconds.digits, 1, Len(seconds.digits) - 3)]

\* new Date(seconds * 1000).toLocaleTimeString() of a Date: the time of day of
\* the instant in the zone of the process, as <<hours, minutes, seconds>>.
\* zone is the offset of that zone from UTC at the instant, in seconds: a zone
\* has had offsets that are no whole minutes (local mean time).
TimeOfDay(seconds, zone) ==
  LET local == (SecondOfDay(seconds) + zone + 2 * 86400) % 86400
  IN  << local \div 3600, (local % 3600) \div 60, local % 60 >>

\* The mutant of ResetTimeOf: the header's seconds taken for milliseconds.
ResetTimeOfNoScale(rateLimitReset, zone) ==
  IF rateLimitReset = None \/ rateLimitReset = Some(<<>>)
  THEN [resetKind |-> "unknown time", resetTime |-> <<>>]
  ELSE LET p == ParseInt(rateLimitReset[1])
       IN  IF p.nan \/ ~IsDate(ThousandthOf(p))
           THEN [resetKind |-> "Invalid Date", resetTime |-> <<>>]
           ELSE [resetKind |-> "time", resetTime |-> TimeOfDay(ThousandthOf(p), zone)]

\* rateLimitReset ? new Date(parseInt(rateLimitReset, 10) * 1000)
\*                      .toLocaleTimeString() : 'unknown time'
ResetTimeOf(rateLimitReset, zone) ==
  IF rateLimitReset = None \/ rateLimitReset = Some(<<>>)
  THEN [resetKind |-> "unknown time", resetTime |-> <<>>]
  ELSE LET p == ParseInt(rateLimitReset[1])
       IN  IF p.nan \/ ~IsDate(p)
           THEN [resetKind |-> "Invalid Date", resetTime |-> <<>>]
           ELSE [resetKind |-> "time", resetTime |-> TimeOfDay(p, zone)]

\* The mutant of HandleApiError: 401 is tested before 404 and answers both.
HandleApiErrorAuthFirst(response, context, zone) ==
  IF response.status = 401 \/ response.status = 404 THEN Msg("AuthFailed")
  ELSE IF response.status = 403 THEN
    IF response.remaining = Some("0")
    THEN LET r == ResetTimeOf(response.reset, zone)
         IN  [Msg("RateLimit") EXCEPT !.resetKind = r.resetKind,
                                      !.resetTime = r.resetTime]
    ELSE Msg("Forbidden")
  ELSE [Msg("ApiError") EXCEPT !.context = context,
                               !.status = response.status,
                               !.statusText = response.statusText]

\* handleApiError: the Error it throws.
HandleApiError(response, context, zone) ==
  IF response.status = 404 THEN [Msg("NotFound") EXCEPT !.context = context]
  ELSE IF response.status = 401 THEN Msg("AuthFailed")
  ELSE IF response.status = 403 THEN
    IF response.remaining = Some("0")
    THEN LET r == ResetTimeOf(response.reset, zone)
         IN  [Msg("RateLimit") EXCEPT !.resetKind = r.resetKind,
                                      !.resetTime = r.resetTime]
    ELSE Msg("Forbidden")
  ELSE [Msg("ApiError") EXCEPT !.context = context,
                               !.status = response.status,
                               !.statusText = response.statusText]

\* safeFetch: the settled promise of one request.  resp.net is "ok" when fetch
\* resolves, "error" when it rejects with an Error, "thrown" when it rejects
\* with a value that is no Error.
SafeFetch(url, resp) ==
  IF resp.net = "error"
  THEN [status |-> "rejected", value |-> resp, reason |-> Msg("Network")]
  ELSE IF resp.net = "thrown"
  THEN [status |-> "rejected", value |-> resp,
        reason |-> [Msg("UnknownNetwork") EXCEPT !.url = url]]
  ELSE [status |-> "fulfilled", value |-> resp, reason |-> NoMsg]

(***************************************************************************)
(* github.ts: the reduction of one contributor's three settled requests.   *)
(***************************************************************************)
\* The code units String.prototype.toUpperCase changes, in code-unit order, and
\* below what it makes of each: the upper-case mapping of the Unicode Character
\* Database (UnicodeData.txt and the unconditional part of SpecialCasing.txt).
\* A code unit is written as its character when that is printable ASCII, else as
\* the name of its code point.
CasedUnits ==
  <<
     "a", "b", "c", "d", "e", "f", "g", "h", "i", "j", "k", "l", "m", "n", "o", "p", "q", "r",
     "s", "t", "u", "v", "w", "x", "y", "z", "U+00B5", "U+00DF", "U+00E0", "U+00E1", "U+00E2",
     "U+00E3", "U+00E4", "U+00E5", "U+00E6", "U+00E7", "U+00E8", "U+00E9", "U+00EA", "U+00EB",
     "U+00EC", "U+00ED", "U+00EE", "U+00EF", "U+00F0", "U+00F1", "U+00F2", "U+00F3", "U+00F4",
     "U+00F5", "U+00F6", "U+00F8", "U+00F9", "U+00FA", "U+00FB", "U+00FC", "U+00FD", "U+00FE",
     "U+00FF", "U+0101", "U+0103", "U+0105", "U+0107", "U+0109", "U+010B", "U+010D", "U+010F",
     "U+0111", "U+0113", "U+0115", "U+0117", "U+0119", "U+011B", "U+011D", "U+011F", "U+0121",
     "U+0123", "U+0125", "U+0127", "U+0129", "U+012B", "U+012D", "U+012F", "U+0131", "U+0133",
     "U+0135", "U+0137", "U+013A", "U+013C", "U+013E", "U+0140", "U+0142", "U+0144", "U+0146",
     "U+0148", "U+0149", "U+014B", "U+014D", "U+014F", "U+0151", "U+0153", "U+0155", "U+0157",
     "U+0159", "U+015B", "U+015D", "U+015F", "U+0161", "U+0163", "U+0165", "U+0167", "U+0169",
     "U+016B", "U+016D", "U+016F", "U+0171", "U+0173", "U+0175", "U+0177", "U+017A", "U+017C",
     "U+017E", "U+017F", "U+0180", "U+0183", "U+0185", "U+0188", "U+018C", "U+0192", "U+0195",
     "U+0199", "U+019A", "U+019B", "U+019E", "U+01A1", "U+01A3", "U+01A5", "U+01A8", "U+01AD",
     "U+01B0", "U+01B4", "U+01B6", "U+01B9", "U+01BD", "U+01BF", "U+01C5", "U+01C6", "U+01C8",
     "U+01C9", "U+01CB", "U+01CC", "U+01CE", "U+01D0", "U+01D2", "U+01D4", "U+01D6", "U+01D8",
     "U+01DA", "U+01DC", "U+01DD", "U+01DF", "U+01E1", "U+01E3", "U+01E5", "U+01E7", "U+01E9",
     "U+01EB", "U+01ED", "U+01EF", "U+01F0", "U+01F2", "U+01F3", "U+01F5", "U+01F9", "U+01FB",
     "U+01FD", "U+01FF", "U+0201", "U+0203", "U+0205", "U+0207", "U+0209", "U+020B", "U+020D",
     "U+020F", "U+0211", "U+0213", "U+0215", "U+0217", "U+0219", "U+021B", "U+021D", "U+021F",
     "U+0223", "U+0225", "U+0227", "U+0229", "U+022B", "U+022D", "U+022F", "U+0231", "U+0233",
     "U+023C", "U+023F", "U+0240", "U+0242", "U+0247", "U+0249", "U+024B", "U+024D", "U+024F",
     "U+0250", "U+0251", "U+0252", "U+0253", "U+0254", "U+0256", "U+0257", "U+0259", "U+025B",
     "U+025C", "U+0260", "U+0261", "U+0263", "U+0264", "U+0265", "U+0266", "U+0268", "U+0269",
     "U+026A", "U+026B", "U+026C", "U+026F", "U+0271", "U+0272", "U+0275", "U+027D", "U+0280",
     "U+0282", "U+0283", "U+0287", "U+0288", "U+0289", "U+028A", "U+028B", "U+028C", "U+0292",
     "U+029D", "U+029E", "U+0345", "U+0371", "U+0373", "U+0377", "U+037B", "U+037C", "U+037D",
     "U+0390", "U+03AC", "U+03AD", "U+03AE", "U+03AF", "U+03B0", "U+03B1", "U+03B2", "U+03B3",
     "U+03B4", "U+03B5", "U+03B6", "U+03B7", "U+03B8", "U+03B9", "U+03BA", "U+03BB", "U+03BC",
     "U+03BD", "U+03BE", "U+03BF", "U+03C0", "U+03C1", "U+03C2", "U+03C3", "U+03C4", "U+03C5",
     "U+03C6", "U+03C7", "U+03C8", "U+03C9", "U+03CA", "U+03CB", "U+03CC", "U+03CD", "U+03CE",
     "U+03D0", "U+03D1", "U+03D5", "U+03D6", "U+03D7", "U+03D9", "U+03DB", "U+03DD", "U+03DF",
     "U+03E1", "U+03E3", "U+03E5", "U+03E7", "U+03E9", "U+03EB", "U+03ED", "U+03EF", "U+03F0",
     "U+03F1", "U+03F2", "U+03F3", "U+03F5", "U+03F8", "U+03FB", "U+0430", "U+0431", "U+0432",
     "U+0433", "U+0434", "U+0435", "U+0436", "U+0437", "U+0438", "U+0439", "U+043A", "U+043B",
     "U+043C", "U+043D", "U+043E", "U+043F", "U+0440", "U+0441", "U+0442", "U+0443", "U+0444",
     "U+0445", "U+0446", "U+0447", "U+0448", "U+0449", "U+044A", "U+044B", "U+044C", "U+044D",
     "U+044E", "U+044F", "U+0450", "U+0451", "U+0452", "U+0453", "U+0454", "U+0455", "U+0456",
     "U+0457", "U+0458", "U+0459", "U+045A", "U+045B", "U+045C", "U+045D", "U+045E", "U+045F",
     "U+0461", "U+0463", "U+0465", "U+0467", "U+0469", "U+046B", "U+046D", "U+046F", "U+0471",
     "U+0473", "U+0475", "U+0477", "U+0479", "U+047B", "U+047D", "U+047F", "U+0481", "U+048B",
     "U+048D", "U+048F", "U+0491", "U+0493", "U+0495", "U+0497", "U+0499", "U+049B", "U+049D",
     "U+049F", "U+04A1", "U+04A3", "U+04A5", "U+04A7", "U+04A9", "U+04AB", "U+04AD", "U+04AF",
     "U+04B1", "U+04B3", "U+04B5", "U+04B7", "U+04B9", "U+04BB", "U+04BD", "U+04BF", "U+04C2",
     "U+04C4", "U+04C6", "U+04C8", "U+04CA", "U+04CC", "U+04CE", "U+04CF", "U+04D1", "U+04D3",
     "U+04D5", "U+04D7", "U+04D9", "U+04DB", "U+04DD", "U+04DF", "U+04E1", "U+04E3", "U+04E5",
     "U+04E7", "U+04E9", "U+04EB", "U+04ED", "U+04EF", "U+04F1", "U+04F3", "U+04F5", "U+04F7",
     "U+04F9", "U+04FB", "U+04FD", "U+04FF", "U+0501", "U+0503", "U+0505", "U+0507", "U+0509",
     "U+050B", "U+050D", "U+050F", "U+0511", "U+0513", "U+0515", "U+0517", "U+0519", "U+051B",
     "U+051D", "U+051F", "U+0521", "U+0523", "U+0525", "U+0527", "U+0529", "U+052B", "U+052D",
     "U+052F", "U+0561", "U+0562", "U+0563", "U+0564", "U+0565", "U+0566", "U+0567", "U+0568",
     "U+0569", "U+056A", "U+056B", "U+056C", "U+056D", "U+056E", "U+056F", "U+0570", "U+0571",
     "U+0572", "U+0573", "U+0574", "U+0575", "U+0576", "U+0577", "U+0578", "U+0579", "U+057A",
     "U+057B", "U+057C", "U+057D", "U+057E", "U+057F", "U+0580", "U+0581", "U+0582", "U+0583",
     "U+0584", "U+0585", "U+0586", "U+0587", "U+10D0", "U+10D1", "U+10D2", "U+10D3", "U+10D4",
     "U+10D5", "U+10D6", "U+10D7", "U+10D8", "U+10D9", "U+10DA", "U+10DB", "U+10DC", "U+10DD",
     "U+10DE", "U+10DF", "U+10E0", "U+10E1", "U+10E2", "U+10E3", "U+10E4", "U+10E5", "U+10E6",
     "U+10E7", "U+10E8", "U+10E9", "U+10EA", "U+10EB", "U+10EC", "U+10ED", "U+10EE", "U+10EF",
     "U+10F0", "U+10F1", "U+10F2", "U+10F3", "U+10F4", "U+10F5", "U+10F6", "U+10F7", "U+10F8",
     "U+10F9", "U+10FA", "U+10FD", "U+10FE", "U+10FF", "U+13F8", "U+13F9", "U+13FA", "U+13FB",
     "U+13FC", "U+13FD", "U+1C80", "U+1C81", "U+1C82", "U+1C83", "U+1C84", "U+1C85", "U+1C86",
     "U+1C87", "U+1C88", "U+1C8A", "U+1D79", "U+1D7D", "U+1D8E", "U+1E01", "U+1E03", "U+1E05",
     "U+1E07", "U+1E09", "U+1E0B", "U+1E0D", "U+1E0F", "U+1E11", "U+1E13", "U+1E15", "U+1E17",
     "U+1E19", "U+1E1B", "U+1E1D", "U+1E1F", "U+1E21", "U+1E23", "U+1E25", "U+1E27", "U+1E29",
     "U+1E2B", "U+1E2D", "U+1E2F", "U+1E31", "U+1E33", "U+1E35", "U+1E37", "U+1E39", "U+1E3B",
     "U+1E3D", "U+1E3F", "U+1E41", "U+1E43", "U+1E45", "U+1E47", "U+1E49", "U+1E4B", "U+1E4D",
     "U+1E4F", "U+1E51", "U+1E53", "U+1E55", "U+1E57", "U+1E59", "U+1E5B", "U+1E5D", "U+1E5F",
     "U+1E61", "U+1E63", "U+1E65", "U+1E67", "U+1E69", "U+1E6B", "U+1E6D", "U+1E6F", "U+1E71",
     "U+1E73", "U+1E75", "U+1E77", "U+1E79", "U+1E7B", "U+1E7D", "U+1E7F", "U+1E81", "U+1E83",
     "U+1E85", "U+1E87", "U+1E89", "U+1E8B", "U+1E8D", "U+1E8F", "U+1E91", "U+1E93", "U+1E95",
     "U+1E96", "U+1E97", "U+1E98", "U+1E99", "U+1E9A", "U+1E9B", "U+1EA1", "U+1EA3", "U+1EA5",
     "U+1EA7", "U+1EA9", "U+1EAB", "U+1EAD", "U+1EAF", "U+1EB1", "U+1EB3", "U+1EB5", "U+1EB7",
     "U+1EB9", "U+1EBB", "U+1EBD", "U+1EBF", "U+1EC1", "U+1EC3", "U+1EC5", "U+1EC7", "U+1EC9",
     "U+1ECB", "U+1ECD", "U+1ECF", "U+1ED1", "U+1ED3", "U+1ED5", "U+1ED7", "U+1ED9", "U+1EDB",
     "U+1EDD", "U+1EDF", "U+1EE1", "U+1EE3", "U+1EE5", "U+1EE7", "U+1EE9", "U+1EEB", "U+1EED",
     "U+1EEF", "U+1EF1", "U+1EF3", "U+1EF5", "U+1EF7", "U+1EF9", "U+1EFB", "U+1EFD", "U+1EFF",
     "U+1F00", "U+1F01", "U+1F02", "U+1F03", "U+1F04", "U+1F05", "U+1F06", "U+1F07", "U+1F10",
     "U+1F11", "U+1F12", "U+1F13", "U+1F14", "U+1F15", "U+1F20", "U+1F21", "U+1F22", "U+1F23",
     "U+1F24", "U+1F25", "U+1F26", "U+1F27", "U+1F30", "U+1F31", "U+1F32", "U+1F33", "U+1F34",
     "U+1F35", "U+1F36", "U+1F37", "U+1F40", "U+1F41", "U+1F42", "U+1F43", "U+1F44", "U+1F45",
     "U+1F50", "U+1F51", "U+1F52", "U+1F53", "U+1F54", "U+1F55", "U+1F56", "U+1F57", "U+1F60",
     "U+1F61", "U+1F62", "U+1F63", "U+1F64", "U+1F65", "U+1F66", "U+1F67", "U+1F70", "U+1F71",
     "U+1F72", "U+1F73", "U+1F74", "U+1F75", "U+1F76", "U+1F77", "U+1F78", "U+1F79", "U+1F7A",
     "U+1F7B", "U+1F7C", "U+1F7D", "U+1F80", "U+1F81", "U+1F82", "U+1F83", "U+1F84", "U+1F85",
     "U+1F86", "U+1F87", "U+1F88", "U+1F89", "U+1F8A", "U+1F8B", "U+1F8C", "U+1F8D", "U+1F8E",
     "U+1F8F", "U+1F90", "U+1F91", "U+1F92", "U+1F93", "U+1F94", "U+1F95", "U+1F96", "U+1F97",
     "U+1F98", "U+1F99", "U+1F9A", "U+1F9B", "U+1F9C", "U+1F9D", "U+1F9E", "U+1F9F", "U+1FA0",
     "U+1FA1", "U+1FA2", "U+1FA3", "U+1FA4", "U+1FA5", "U+1FA6", "U+1FA7", "U+1FA8", "U+1FA9",
     "U+1FAA", "U+1FAB", "U+1FAC", "U+1FAD", "U+1FAE", "U+1FAF", "U+1FB0", "U+1FB1", "U+1FB2",
     "U+1FB3", "U+1FB4", "U+1FB6", "U+1FB7", "U+1FBC", "U+1FBE", "U+1FC2", "U+1FC3", "U+1FC4",
     "U+1FC6", "U+1FC7", "U+1FCC", "U+1FD0", "U+1FD1", "U+1FD2", "U+1FD3", "U+1FD6", "U+1FD7",
     "U+1FE0", "U+1FE1", "U+1FE2", "U+1FE3", "U+1FE4", "U+1FE5", "U+1FE6", "U+1FE7", "U+1FF2",
     "U+1FF3", "U+1FF4", "U+1FF6", "U+1FF7", "U+1FFC", "U+214E", "U+2170", "U+2171", "U+2172",
     "U+2173", "U+2174", "U+2175", "U+2176", "U+2177", "U+2178", "U+2179", "U+217A", "U+217B",
     "U+217C", "U+217D", "U+217E", "U+217F", "U+2184", "U+24D0", "U+24D1", "U+24D2", "U+24D3",
     "U+24D4", "U+24D5", "U+24D6", "U+24D7", "U+24D8", "U+24D9", "U+24DA", "U+24DB", "U+24DC",
     "U+24DD", "U+24DE", "U+24DF", "U+24E0", "U+24E1", "U+24E2", "U+24E3", "U+24E4", "U+24E5",
     "U+24E6", "U+24E7", "U+24E8", "U+24E9", "U+2C30", "U+2C31", "U+2C32", "U+2C33", "U+2C34",
     "U+2C35", "U+2C36", "U+2C37", "U+2C38", "U+2C39", "U+2C3A", "U+2C3B", "U+2C3C", "U+2C3D",
     "U+2C3E", "U+2C3F", "U+2C40", "U+2C41", "U+2C42", "U+2C43", "U+2C44", "U+2C45", "U+2C46",
     "U+2C47", "U+2C48", "U+2C49", "U+2C4A", "U+2C4B", "U+2C4C", "U+2C4D", "U+2C4E", "U+2C4F",
     "U+2C50", "U+2C51", "U+2C52", "U+2C53", "U+2C54", "U+2C55", "U+2C56", "U+2C57", "U+2C58",
     "U+2C59", "U+2C5A", "U+2C5B", "U+2C5C", "U+2C5D", "U+2C5E", "U+2C5F", "U+2C61", "U+2C65",
     "U+2C66", "U+2C68", "U+2C6A", "U+2C6C", "U+2C73", "U+2C76", "U+2C81", "U+2C83", "U+2C85",
     "U+2C87", "U+2C89", "U+2C8B", "U+2C8D", "U+2C8F", "U+2C91", "U+2C93", "U+2C95", "U+2C97",
     "U+2C99", "U+2C9B", "U+2C9D", "U+2C9F", "U+2CA1", "U+2CA3", "U+2CA5", "U+2CA7", "U+2CA9",
     "U+2CAB", "U+2CAD", "U+2CAF", "U+2CB1", "U+2CB3", "U+2CB5", "U+2CB7", "U+2CB9", "U+2CBB",
     "U+2CBD", "U+2CBF", "U+2CC1", "U+2CC3", "U+2CC5", "U+2CC7", "U+2CC9", "U+2CCB", "U+2CCD",
     "U+2CCF", "U+2CD1", "U+2CD3", "U+2CD5", "U+2CD7", "U+2CD9", "U+2CDB", "U+2CDD", "U+2CDF",
     "U+2CE1", "U+2CE3", "U+2CEC", "U+2CEE", "U+2CF3", "U+2D00", "U+2D01", "U+2D02", "U+2D03",
     "U+2D04", "U+2D05", "U+2D06", "U+2D07", "U+2D08", "U+2D09", "U+2D0A", "U+2D0B", "U+2D0C",
     "U+2D0D", "U+2D0E", "U+2D0F", "U+2D10", "U+2D11", "U+2D12", "U+2D13", "U+2D14", "U+2D15",
     "U+2D16", "U+2D17", "U+2D18", "U+2D19", "U+2D1A", "U+2D1B", "U+2D1C", "U+2D1D", "U+2D1E",
     "U+2D1F", "U+2D20", "U+2D21", "U+2D22", "U+2D23", "U+2D24", "U+2D25", "U+2D27", "U+2D2D",
     "U+A641", "U+A643", "U+A645", "U+A647", "U+A649", "U+A64B", "U+A64D", "U+A64F", "U+A651",
     "U+A653", "U+A655", "U+A657", "U+A659", "U+A65B", "U+A65D", "U+A65F", "U+A661", "U+A663",
     "U+A665", "U+A667", "U+A669", "U+A66B", "U+A66D", "U+A681", "U+A683", "U+A685", "U+A687",
     "U+A689", "U+A68B", "U+A68D", "U+A68F", "U+A691", "U+A693", "U+A695", "U+A697", "U+A699",
     "U+A69B", "U+A723", "U+A725", "U+A727", "U+A729", "U+A72B", "U+A72D", "U+A72F", "U+A733",
     "U+A735", "U+A737", "U+A739", "U+A73B", "U+A73D", "U+A73F", "U+A741", "U+A743", "U+A745",
     "U+A747", "U+A749", "U+A74B", "U+A74D", "U+A74F", "U+A751", "U+A753", "U+A755", "U+A757",
     "U+A759", "U+A75B", "U+A75D", "U+A75F", "U+A761", "U+A763", "U+A765", "U+A767", "U+A769",
     "U+A76B", "U+A76D", "U+A76F", "U+A77A", "U+A77C", "U+A77F", "U+A781", "U+A783", "U+A785",
     "U+A787", "U+A78C", "U+A791", "U+A793", "U+A794", "U+A797", "U+A799", "U+A79B", "U+A79D",
     "U+A79F", "U+A7A1", "U+A7A3", "U+A7A5", "U+A7A7", "U+A7A9", "U+A7B5", "U+A7B7", "U+A7B9",
     "U+A7BB", "U+A7BD", "U+A7BF", "U+A7C1", "U+A7C3", "U+A7C8", "U+A7CA", "U+A7CD", "U+A7CF",
     "U+A7D1", "U+A7D3", "U+A7D5", "U+A7D7", "U+A7D9", "U+A7DB", "U+A7F6", "U+AB53", "U+AB70",
     "U+AB71", "U+AB72", "U+AB73", "U+AB74", "U+AB75", "U+AB76", "U+AB77", "U+AB78", "U+AB79",
     "U+AB7A", "U+AB7B", "U+AB7C", "U+AB7D", "U+AB7E", "U+AB7F", "U+AB80", "U+AB81", "U+AB82",
     "U+AB83", "U+AB84", "U+AB85", "U+AB86", "U+AB87", "U+AB88", "U+AB89", "U+AB8A", "U+AB8B",
     "U+AB8C", "U+AB8D", "U+AB8E", "U+AB8F", "U+AB90", "U+AB91", "U+AB92", "U+AB93", "U+AB94",
     "U+AB95", "U+AB96", "U+AB97", "U+AB98", "U+AB99", "U+AB9A", "U+AB9B", "U+AB9C", "U+AB9D",
     "U+AB9E", "U+AB9F", "U+ABA0", "U+ABA1", "U+ABA2", "U+ABA3", "U+ABA4", "U+ABA5", "U+ABA6",
     "U+ABA7", "U+ABA8", "U+ABA9", "U+ABAA", "U+ABAB", "U+ABAC", "U+ABAD", "U+ABAE", "U+ABAF",
     "U+ABB0", "U+ABB1", "U+ABB2", "U+ABB3", "U+ABB4", "U+ABB5", "U+ABB6", "U+ABB7", "U+ABB8",
     "U+ABB9", "U+ABBA", "U+ABBB", "U+ABBC", "U+ABBD", "U+ABBE", "U+ABBF", "U+FB00", "U+FB01",
     "U+FB02", "U+FB03", "U+FB04", "U+FB05", "U+FB06", "U+FB13", "U+FB14", "U+FB15", "U+FB16",
     "U+FB17", "U+FF41", "U+FF42", "U+FF43", "U+FF44", "U+FF45", "U+FF46", "U+FF47", "U+FF48",
     "U+FF49", "U+FF4A", "U+FF4B", "U+FF4C", "U+FF4D", "U+FF4E", "U+FF4F", "U+FF50", "U+FF51",
     "U+FF52", "U+FF53", "U+FF54", "U+FF55", "U+FF56", "U+FF57", "U+FF58", "U+FF59", "U+FF5A"
  >>
UpperCaseOf ==
  <<
     <<"A">>, <<"B">>, <<"C">>, <<"D">>, <<"E">>, <<"F">>, <<"G">>, <<"H">>, <<"I">>, <<"J">>,
     <<"K">>, <<"L">>, <<"M">>, <<"N">>, <<"O">>, <<"P">>, <<"Q">>, <<"R">>, <<"S">>, <<"T">>,
     <<"U">>, <<"V">>, <<"W">>, <<"X">>, <<"Y">>, <<"Z">>, <<"U+039C">>, <<"S","S">>,
     <<"U+00C0">>, <<"U+00C1">>, <<"U+00C2">>, <<"U+00C3">>, <<"U+00C4">>, <<"U+00C5">>,
     <<"U+00C6">>, <<"U+00C7">>, <<"U+00C8">>, <<"U+00C9">>, <<"U+00CA">>, <<"U+00CB">>,
     <<"U+00CC">>, <<"U+00CD">>, <<"U+00CE">>, <<"U+00CF">>, <<"U+00D0">>, <<"U+00D1">>,
     <<"U+00D2">>, <<"U+00D3">>, <<"U+00D4">>, <<"U+00D5">>, <<"U+00D6">>, <<"U+00D8">>,
     <<"U+00D9">>, <<"U+00DA">>, <<"U+00DB">>, <<"U+00DC">>, <<"U+00DD">>, <<"U+00DE">>,
     <<"U+0178">>, <<"U+0100">>, <<"U+0102">>, <<"U+0104">>, <<"U+0106">>, <<"U+0108">>,
     <<"U+010A">>, <<"U+010C">>, <<"U+010E">>, <<"U+0110">>, <<"U+0112">>, <<"U+0114">>,
     <<"U+0116">>, <<"U+0118">>, <<"U+011A">>, <<"U+011C">>, <<"U+011E">>, <<"U+0120">>,
     <<"U+0122">>, <<"U+0124">>, <<"U+0126">>, <<"U+0128">>, <<"U+012A">>, <<"U+012C">>,
     <<"U+012E">>, <<"I">>, <<"U+0132">>, <<"U+0134">>, <<"U+0136">>, <<"U+0139">>,
     <<"U+013B">>, <<"U+013D">>, <<"U+013F">>, <<"U+0141">>, <<"U+0143">>, <<"U+0145">>,
     <<"U+0147">>, <<"U+02BC","N">>, <<"U+014A">>, <<"U+014C">>, <<"U+014E">>, <<"U+0150">>,
     <<"U+0152">>, <<"U+0154">>, <<"U+0156">>, <<"U+0158">>, <<"U+015A">>, <<"U+015C">>,
     <<"U+015E">>, <<"U+0160">>, <<"U+0162">>, <<"U+0164">>, <<"U+0166">>, <<"U+0168">>,
     <<"U+016A">>, <<"U+016C">>, <<"U+016E">>, <<"U+0170">>, <<"U+0172">>, <<"U+0174">>,
     <<"U+0176">>, <<"U+0179">>, <<"U+017B">>, <<"U+017D">>, <<"S">>, <<"U+0243">>,
     <<"U+0182">>, <<"U+0184">>, <<"U+0187">>, <<"U+018B">>, <<"U+0191">>, <<"U+01F6">>,
     <<"U+0198">>, <<"U+023D">>, <<"U+A7DC">>, <<"U+0220">>, <<"U+01A0">>, <<"U+01A2">>,
     <<"U+01A4">>, <<"U+01A7">>, <<"U+01AC">>, <<"U+01AF">>, <<"U+01B3">>, <<"U+01B5">>,
     <<"U+01B8">>, <<"U+01BC">>, <<"U+01F7">>, <<"U+01C4">>, <<"U+01C4">>, <<"U+01C7">>,
     <<"U+01C7">>, <<"U+01CA">>, <<"U+01CA">>, <<"U+01CD">>, <<"U+01CF">>, <<"U+01D1">>,
     <<"U+01D3">>, <<"U+01D5">>, <<"U+01D7">>, <<"U+01D9">>, <<"U+01DB">>, <<"U+018E">>,
     <<"U+01DE">>, <<"U+01E0">>, <<"U+01E2">>, <<"U+01E4">>, <<"U+01E6">>, <<"U+01E8">>,
     <<"U+01EA">>, <<"U+01EC">>, <<"U+01EE">>, <<"J","U+030C">>, <<"U+01F1">>, <<"U+01F1">>,
     <<"U+01F4">>, <<"U+01F8">>, <<"U+01FA">>, <<"U+01FC">>, <<"U+01FE">>, <<"U+0200">>,
     <<"U+0202">>, <<"U+0204">>, <<"U+0206">>, <<"U+0208">>, <<"U+020A">>, <<"U+020C">>,
     <<"U+020E">>, <<"U+0210">>, <<"U+0212">>, <<"U+0214">>, <<"U+0216">>, <<"U+0218">>,
     <<"U+021A">>, <<"U+021C">>, <<"U+021E">>, <<"U+0222">>, <<"U+0224">>, <<"U+0226">>,
     <<"U+0228">>, <<"U+022A">>, <<"U+022C">>, <<"U+022E">>, <<"U+0230">>, <<"U+0232">>,
     <<"U+023B">>, <<"U+2C7E">>, <<"U+2C7F">>, <<"U+0241">>, <<"U+0246">>, <<"U+0248">>,
     <<"U+024A">>, <<"U+024C">>, <<"U+024E">>, <<"U+2C6F">>, <<"U+2C6D">>, <<"U+2C70">>,
     <<"U+0181">>, <<"U+0186">>, <<"U+0189">>, <<"U+018A">>, <<"U+018F">>, <<"U+0190">>,
     <<"U+A7AB">>, <<"U+0193">>, <<"U+A7AC">>, <<"U+0194">>, <<"U+A7CB">>, <<"U+A78D">>,
     <<"U+A7AA">>, <<"U+0197">>, <<"U+0196">>, <<"U+A7AE">>, <<"U+2C62">>, <<"U+A7AD">>,
     <<"U+019C">>, <<"U+2C6E">>, <<"U+019D">>, <<"U+019F">>, <<"U+2C64">>, <<"U+01A6">>,
     <<"U+A7C5">>, <<"U+01A9">>, <<"U+A7B1">>, <<"U+01AE">>, <<"U+0244">>, <<"U+01B1">>,
     <<"U+01B2">>, <<"U+0245">>, <<"U+01B7">>, <<"U+A7B2">>, <<"U+A7B0">>, <<"U+0399">>,
     <<"U+0370">>, <<"U+0372">>, <<"U+0376">>, <<"U+03FD">>, <<"U+03FE">>, <<"U+03FF">>,
     <<"U+0399","U+0308","U+0301">>, <<"U+0386">>, <<"U+0388">>, <<"U+0389">>, <<"U+038A">>,
     <<"U+03A5","U+0308","U+0301">>, <<"U+0391">>, <<"U+0392">>, <<"U+0393">>, <<"U+0394">>,
     <<"U+0395">>, <<"U+0396">>, <<"U+0397">>, <<"U+0398">>, <<"U+0399">>, <<"U+039A">>,
     <<"U+039B">>, <<"U+039C">>, <<"U+039D">>, <<"U+039E">>, <<"U+039F">>, <<"U+03A0">>,
     <<"U+03A1">>, <<"U+03A3">>, <<"U+03A3">>, <<"U+03A4">>, <<"U+03A5">>, <<"U+03A6">>,
     <<"U+03A7">>, <<"U+03A8">>, <<"U+03A9">>, <<"U+03AA">>, <<"U+03AB">>, <<"U+038C">>,
     <<"U+038E">>, <<"U+038F">>, <<"U+0392">>, <<"U+0398">>, <<"U+03A6">>, <<"U+03A0">>,
     <<"U+03CF">>, <<"U+03D8">>, <<"U+03DA">>, <<"U+03DC">>, <<"U+03DE">>, <<"U+03E0">>,
     <<"U+03E2">>, <<"U+03E4">>, <<"U+03E6">>, <<"U+03E8">>, <<"U+03EA">>, <<"U+03EC">>,
     <<"U+03EE">>, <<"U+039A">>, <<"U+03A1">>, <<"U+03F9">>, <<"U+037F">>, <<"U+0395">>,
     <<"U+03F7">>, <<"U+03FA">>, <<"U+0410">>, <<"U+0411">>, <<"U+0412">>, <<"U+0413">>,
     <<"U+0414">>, <<"U+0415">>, <<"U+0416">>, <<"U+0417">>, <<"U+0418">>, <<"U+0419">>,
     <<"U+041A">>, <<"U+041B">>, <<"U+041C">>, <<"U+041D">>, <<"U+041E">>, <<"U+041F">>,
     <<"U+0420">>, <<"U+0421">>, <<"U+0422">>, <<"U+0423">>, <<"U+0424">>, <<"U+0425">>,
     <<"U+0426">>, <<"U+0427">>, <<"U+0428">>, <<"U+0429">>, <<"U+042A">>, <<"U+042B">>,
     <<"U+042C">>, <<"U+042D">>, <<"U+042E">>, <<"U+042F">>, <<"U+0400">>, <<"U+0401">>,
     <<"U+0402">>, <<"U+0403">>, <<"U+0404">>, <<"U+0405">>, <<"U+0406">>, <<"U+0407">>,
     <<"U+0408">>, <<"U+0409">>, <<"U+040A">>, <<"U+040B">>, <<"U+040C">>, <<"U+040D">>,
     <<"U+040E">>, <<"U+040F">>, <<"U+0460">>, <<"U+0462">>, <<"U+0464">>, <<"U+0466">>,
     <<"U+0468">>, <<"U+046A">>, <<"U+046C">>, <<"U+046E">>, <<"U+0470">>, <<"U+0472">>,
     <<"U+0474">>, <<"U+0476">>, <<"U+0478">>, <<"U+047A">>, <<"U+047C">>, <<"U+047E">>,
     <<"U+0480">>, <<"U+048A">>, <<"U+048C">>, <<"U+048E">>, <<"U+0490">>, <<"U+0492">>,
     <<"U+0494">>, <<"U+0496">>, <<"U+0498">>, <<"U+049A">>, <<"U+049C">>, <<"U+049E">>,
     <<"U+04A0">>, <<"U+04A2">>, <<"U+04A4">>, <<"U+04A6">>, <<"U+04A8">>, <<"U+04AA">>,
     <<"U+04AC">>, <<"U+04AE">>, <<"U+04B0">>, <<"U+04B2">>, <<"U+04B4">>, <<"U+04B6">>,
     <<"U+04B8">>, <<"U+04BA">>, <<"U+04BC">>, <<"U+04BE">>, <<"U+04C1">>, <<"U+04C3">>,
     <<"U+04C5">>, <<"U+04C7">>, <<"U+04C9">>, <<"U+04CB">>, <<"U+04CD">>, <<"U+04C0">>,
     <<"U+04D0">>, <<"U+04D2">>, <<"U+04D4">>, <<"U+04D6">>, <<"U+04D8">>, <<"U+04DA">>,
     <<"U+04DC">>, <<"U+04DE">>, <<"U+04E0">>, <<"U+04E2">>, <<"U+04E4">>, <<"U+04E6">>,
     <<"U+04E8">>, <<"U+04EA">>, <<"U+04EC">>, <<"U+04EE">>, <<"U+04F0">>, <<"U+04F2">>,
     <<"U+04F4">>, <<"U+04F6">>, <<"U+04F8">>, <<"U+04FA">>, <<"U+04FC">>, <<"U+04FE">>,
     <<"U+0500">>, <<"U+0502">>, <<"U+0504">>, <<"U+0506">>, <<"U+0508">>, <<"U+050A">>,
     <<"U+050C">>, <<"U+050E">>, <<"U+0510">>, <<"U+0512">>, <<"U+0514">>, <<"U+0516">>,
     <<"U+0518">>, <<"U+051A">>, <<"U+051C">>, <<"U+051E">>, <<"U+0520">>, <<"U+0522">>,
     <<"U+0524">>, <<"U+0526">>, <<"U+0528">>, <<"U+052A">>, <<"U+052C">>, <<"U+052E">>,
     <<"U+0531">>, <<"U+0532">>, <<"U+0533">>, <<"U+0534">>, <<"U+0535">>, <<"U+0536">>,
     <<"U+0537">>, <<"U+0538">>, <<"U+0539">>, <<"U+053A">>, <<"U+053B">>, <<"U+053C">>,
     <<"U+053D">>, <<"U+053E">>, <<"U+053F">>, <<"U+0540">>, <<"U+0541">>, <<"U+0542">>,
     <<"U+0543">>, <<"U+0544">>, <<"U+0545">>, <<"U+0546">>, <<"U+0547">>, <<"U+0548">>,
     <<"U+0549">>, <<"U+054A">>, <<"U+054B">>, <<"U+054C">>, <<"U+054D">>, <<"U+054E">>,
     <<"U+054F">>, <<"U+0550">>, <<"U+0551">>, <<"U+0552">>, <<"U+0553">>, <<"U+0554">>,
     <<"U+0555">>, <<"U+0556">>, <<"U+0535","U+0552">>, <<"U+1C90">>, <<"U+1C91">>,
     <<"U+1C92">>, <<"U+1C93">>, <<"U+1C94">>, <<"U+1C95">>, <<"U+1C96">>, <<"U+1C97">>,
     <<"U+1C98">>, <<"U+1C99">>, <<"U+1C9A">>, <<"U+1C9B">>, <<"U+1C9C">>, <<"U+1C9D">>,
     <<"U+1C9E">>, <<"U+1C9F">>, <<"U+1CA0">>, <<"U+1CA1">>, <<"U+1CA2">>, <<"U+1CA3">>,
     <<"U+1CA4">>, <<"U+1CA5">>, <<"U+1CA6">>, <<"U+1CA7">>, <<"U+1CA8">>, <<"U+1CA9">>,
     <<"U+1CAA">>, <<"U+1CAB">>, <<"U+1CAC">>, <<"U+1CAD">>, <<"U+1CAE">>, <<"U+1CAF">>,
     <<"U+1CB0">>, <<"U+1CB1">>, <<"U+1CB2">>, <<"U+1CB3">>, <<"U+1CB4">>, <<"U+1CB5">>,
     <<"U+1CB6">>, <<"U+1CB7">>, <<"U+1CB8">>, <<"U+1CB9">>, <<"U+1CBA">>, <<"U+1CBD">>,
     <<"U+1CBE">>, <<"U+1CBF">>, <<"U+13F0">>, <<"U+13F1">>, <<"U+13F2">>, <<"U+13F3">>,
     <<"U+13F4">>, <<"U+13F5">>, <<"U+0412">>, <<"U+0414">>, <<"U+041E">>, <<"U+0421">>,
     <<"U+0422">>, <<"U+0422">>, <<"U+042A">>, <<"U+0462">>, <<"U+A64A">>, <<"U+1C89">>,
     <<"U+A77D">>, <<"U+2C63">>, <<"U+A7C6">>, <<"U+1E00">>, <<"U+1E02">>, <<"U+1E04">>,
     <<"U+1E06">>, <<"U+1E08">>, <<"U+1E0A">>, <<"U+1E0C">>, <<"U+1E0E">>, <<"U+1E10">>,
     <<"U+1E12">>, <<"U+1E14">>, <<"U+1E16">>, <<"U+1E18">>, <<"U+1E1A">>, <<"U+1E1C">>,
     <<"U+1E1E">>, <<"U+1E20">>, <<"U+1E22">>, <<"U+1E24">>, <<"U+1E26">>, <<"U+1E28">>,
     <<"U+1E2A">>, <<"U+1E2C">>, <<"U+1E2E">>, <<"U+1E30">>, <<"U+1E32">>, <<"U+1E34">>,
     <<"U+1E36">>, <<"U+1E38">>, <<"U+1E3A">>, <<"U+1E3C">>, <<"U+1E3E">>, <<"U+1E40">>,
     <<"U+1E42">>, <<"U+1E44">>, <<"U+1E46">>, <<"U+1E48">>, <<"U+1E4A">>, <<"U+1E4C">>,
     <<"U+1E4E">>, <<"U+1E50">>, <<"U+1E52">>, <<"U+1E54">>, <<"U+1E56">>, <<"U+1E58">>,
     <<"U+1E5A">>, <<"U+1E5C">>, <<"U+1E5E">>, <<"U+1E60">>, <<"U+1E62">>, <<"U+1E64">>,
     <<"U+1E66">>, <<"U+1E68">>, <<"U+1E6A">>, <<"U+1E6C">>, <<"U+1E6E">>, <<"U+1E70">>,
     <<"U+1E72">>, <<"U+1E74">>, <<"U+1E76">>, <<"U+1E78">>, <<"U+1E7A">>, <<"U+1E7C">>,
     <<"U+1E7E">>, <<"U+1E80">>, <<"U+1E82">>, <<"U+1E84">>, <<"U+1E86">>, <<"U+1E88">>,
     <<"U+1E8A">>, <<"U+1E8C">>, <<"U+1E8E">>, <<"U+1E90">>, <<"U+1E92">>, <<"U+1E94">>,
     <<"H","U+0331">>, <<"T","U+0308">>, <<"W","U+030A">>, <<"Y","U+030A">>, <<"A","U+02BE">>,
     <<"U+1E60">>, <<"U+1EA0">>, <<"U+1EA2">>, <<"U+1EA4">>, <<"U+1EA6">>, <<"U+1EA8">>,
     <<"U+1EAA">>, <<"U+1EAC">>, <<"U+1EAE">>, <<"U+1EB0">>, <<"U+1EB2">>, <<"U+1EB4">>,
     <<"U+1EB6">>, <<"U+1EB8">>, <<"U+1EBA">>, <<"U+1EBC">>, <<"U+1EBE">>, <<"U+1EC0">>,
     <<"U+1EC2">>, <<"U+1EC4">>, <<"U+1EC6">>, <<"U+1EC8">>, <<"U+1ECA">>, <<"U+1ECC">>,
     <<"U+1ECE">>, <<"U+1ED0">>, <<"U+1ED2">>, <<"U+1ED4">>, <<"U+1ED6">>, <<"U+1ED8">>,
     <<"U+1EDA">>, <<"U+1EDC">>, <<"U+1EDE">>, <<"U+1EE0">>, <<"U+1EE2">>, <<"U+1EE4">>,
     <<"U+1EE6">>, <<"U+1EE8">>, <<"U+1EEA">>, <<"U+1EEC">>, <<"U+1EEE">>, <<"U+1EF0">>,
     <<"U+1EF2">>, <<"U+1EF4">>, <<"U+1EF6">>, <<"U+1EF8">>, <<"U+1EFA">>, <<"U+1EFC">>,
     <<"U+1EFE">>, <<"U+1F08">>, <<"U+1F09">>, <<"U+1F0A">>, <<"U+1F0B">>, <<"U+1F0C">>,
     <<"U+1F0D">>, <<"U+1F0E">>, <<"U+1F0F">>, <<"U+1F18">>, <<"U+1F19">>, <<"U+1F1A">>,
     <<"U+1F1B">>, <<"U+1F1C">>, <<"U+1F1D">>, <<"U+1F28">>, <<"U+1F29">>, <<"U+1F2A">>,
     <<"U+1F2B">>, <<"U+1F2C">>, <<"U+1F2D">>, <<"U+1F2E">>, <<"U+1F2F">>, <<"U+1F38">>,
     <<"U+1F39">>, <<"U+1F3A">>, <<"U+1F3B">>, <<"U+1F3C">>, <<"U+1F3D">>, <<"U+1F3E">>,
     <<"U+1F3F">>, <<"U+1F48">>, <<"U+1F49">>, <<"U+1F4A">>, <<"U+1F4B">>, <<"U+1F4C">>,
     <<"U+1F4D">>, <<"U+03A5","U+0313">>, <<"U+1F59">>, <<"U+03A5","U+0313","U+0300">>,
     <<"U+1F5B">>, <<"U+03A5","U+0313","U+0301">>, <<"U+1F5D">>,
     <<"U+03A5","U+0313","U+0342">>, <<"U+1F5F">>, <<"U+1F68">>, <<"U+1F69">>, <<"U+1F6A">>,
     <<"U+1F6B">>, <<"U+1F6C">>, <<"U+1F6D">>, <<"U+1F6E">>, <<"U+1F6F">>, <<"U+1FBA">>,
     <<"U+1FBB">>, <<"U+1FC8">>, <<"U+1FC9">>, <<"U+1FCA">>, <<"U+1FCB">>, <<"U+1FDA">>,
     <<"U+1FDB">>, <<"U+1FF8">>, <<"U+1FF9">>, <<"U+1FEA">>, <<"U+1FEB">>, <<"U+1FFA">>,
     <<"U+1FFB">>, <<"U+1F08","U+0399">>, <<"U+1F09","U+0399">>, <<"U+1F0A","U+0399">>,
     <<"U+1F0B","U+0399">>, <<"U+1F0C","U+0399">>, <<"U+1F0D","U+0399">>,
     <<"U+1F0E","U+0399">>, <<"U+1F0F","U+0399">>, <<"U+1F08","U+0399">>,
     <<"U+1F09","U+0399">>, <<"U+1F0A","U+0399">>, <<"U+1F0B","U+0399">>,
     <<"U+1F0C","U+0399">>, <<"U+1F0D","U+0399">>, <<"U+1F0E","U+0399">>,
     <<"U+1F0F","U+0399">>, <<"U+1F28","U+0399">>, <<"U+1F29","U+0399">>,
     <<"U+1F2A","U+0399">>, <<"U+1F2B","U+0399">>, <<"U+1F2C","U+0399">>,
     <<"U+1F2D","U+0399">>, <<"U+1F2E","U+0399">>, <<"U+1F2F","U+0399">>,
     <<"U+1F28","U+0399">>, <<"U+1F29","U+0399">>, <<"U+1F2A","U+0399">>,
     <<"U+1F2B","U+0399">>, <<"U+1F2C","U+0399">>, <<"U+1F2D","U+0399">>,
     <<"U+1F2E","U+0399">>, <<"U+1F2F","U+0399">>, <<"U+1F68","U+0399">>,
     <<"U+1F69","U+0399">>, <<"U+1F6A","U+0399">>, <<"U+1F6B","U+0399">>,
     <<"U+1F6C","U+0399">>, <<"U+1F6D","U+0399">>, <<"U+1F6E","U+0399">>,
     <<"U+1F6F","U+0399">>, <<"U+1F68","U+0399">>, <<"U+1F69","U+0399">>,
     <<"U+1F6A","U+0399">>, <<"U+1F6B","U+0399">>, <<"U+1F6C","U+0399">>,
     <<"U+1F6D","U+0399">>, <<"U+1F6E","U+0399">>, <<"U+1F6F","U+0399">>, <<"U+1FB8">>,
     <<"U+1FB9">>, <<"U+1FBA","U+0399">>, <<"U+0391","U+0399">>, <<"U+0386","U+0399">>,
     <<"U+0391","U+0342">>, <<"U+0391","U+0342","U+0399">>, <<"U+0391","U+0399">>,
     <<"U+0399">>, <<"U+1FCA","U+0399">>, <<"U+0397","U+0399">>, <<"U+0389","U+0399">>,
     <<"U+0397","U+0342">>, <<"U+0397","U+0342","U+0399">>, <<"U+0397","U+0399">>,
     <<"U+1FD8">>, <<"U+1FD9">>, <<"U+0399","U+0308","U+0300">>,
     <<"U+0399","U+0308","U+0301">>, <<"U+0399","U+0342">>, <<"U+0399","U+0308","U+0342">>,
     <<"U+1FE8">>, <<"U+1FE9">>, <<"U+03A5","U+0308","U+0300">>,
     <<"U+03A5","U+0308","U+0301">>, <<"U+03A1","U+0313">>, <<"U+1FEC">>,
     <<"U+03A5","U+0342">>, <<"U+03A5","U+0308","U+0342">>, <<"U+1FFA","U+0399">>,
     <<"U+03A9","U+0399">>, <<"U+038F","U+0399">>, <<"U+03A9","U+0342">>,
     <<"U+03A9","U+0342","U+0399">>, <<"U+03A9","U+0399">>, <<"U+2132">>, <<"U+2160">>,
     <<"U+2161">>, <<"U+2162">>, <<"U+2163">>, <<"U+2164">>, <<"U+2165">>, <<"U+2166">>,
     <<"U+2167">>, <<"U+2168">>, <<"U+2169">>, <<"U+216A">>, <<"U+216B">>, <<"U+216C">>,
     <<"U+216D">>, <<"U+216E">>, <<"U+216F">>, <<"U+2183">>, <<"U+24B6">>, <<"U+24B7">>,
     <<"U+24B8">>, <<"U+24B9">>, <<"U+24BA">>, <<"U+24BB">>, <<"U+24BC">>, <<"U+24BD">>,
     <<"U+24BE">>, <<"U+24BF">>, <<"U+24C0">>, <<"U+24C1">>, <<"U+24C2">>, <<"U+24C3">>,
     <<"U+24C4">>, <<"U+24C5">>, <<"U+24C6">>, <<"U+24C7">>, <<"U+24C8">>, <<"U+24C9">>,
     <<"U+24CA">>, <<"U+24CB">>, <<"U+24CC">>, <<"U+24CD">>, <<"U+24CE">>, <<"U+24CF">>,
     <<"U+2C00">>, <<"U+2C01">>, <<"U+2C02">>, <<"U+2C03">>, <<"U+2C04">>, <<"U+2C05">>,
     <<"U+2C06">>, <<"U+2C07">>, <<"U+2C08">>, <<"U+2C09">>, <<"U+2C0A">>, <<"U+2C0B">>,
     <<"U+2C0C">>, <<"U+2C0D">>, <<"U+2C0E">>, <<"U+2C0F">>, <<"U+2C10">>, <<"U+2C11">>,
     <<"U+2C12">>, <<"U+2C13">>, <<"U+2C14">>, <<"U+2C15">>, <<"U+2C16">>, <<"U+2C17">>,
     <<"U+2C18">>, <<"U+2C19">>, <<"U+2C1A">>, <<"U+2C1B">>, <<"U+2C1C">>, <<"U+2C1D">>,
     <<"U+2C1E">>, <<"U+2C1F">>, <<"U+2C20">>, <<"U+2C21">>, <<"U+2C22">>, <<"U+2C23">>,
     <<"U+2C24">>, <<"U+2C25">>, <<"U+2C26">>, <<"U+2C27">>, <<"U+2C28">>, <<"U+2C29">>,
     <<"U+2C2A">>, <<"U+2C2B">>, <<"U+2C2C">>, <<"U+2C2D">>, <<"U+2C2E">>, <<"U+2C2F">>,
     <<"U+2C60">>, <<"U+023A">>, <<"U+023E">>, <<"U+2C67">>, <<"U+2C69">>, <<"U+2C6B">>,
     <<"U+2C72">>, <<"U+2C75">>, <<"U+2C80">>, <<"U+2C82">>, <<"U+2C84">>, <<"U+2C86">>,
     <<"U+2C88">>, <<"U+2C8A">>, <<"U+2C8C">>, <<"U+2C8E">>, <<"U+2C90">>, <<"U+2C92">>,
     <<"U+2C94">>, <<"U+2C96">>, <<"U+2C98">>, <<"U+2C9A">>, <<"U+2C9C">>, <<"U+2C9E">>,
     <<"U+2CA0">>, <<"U+2CA2">>, <<"U+2CA4">>, <<"U+2CA6">>, <<"U+2CA8">>, <<"U+2CAA">>,
     <<"U+2CAC">>, <<"U+2CAE">>, <<"U+2CB0">>, <<"U+2CB2">>, <<"U+2CB4">>, <<"U+2CB6">>,
     <<"U+2CB8">>, <<"U+2CBA">>, <<"U+2CBC">>, <<"U+2CBE">>, <<"U+2CC0">>, <<"U+2CC2">>,
     <<"U+2CC4">>, <<"U+2CC6">>, <<"U+2CC8">>, <<"U+2CCA">>, <<"U+2CCC">>, <<"U+2CCE">>,
     <<"U+2CD0">>, <<"U+2CD2">>, <<"U+2CD4">>, <<"U+2CD6">>, <<"U+2CD8">>, <<"U+2CDA">>,
     <<"U+2CDC">>, <<"U+2CDE">>, <<"U+2CE0">>, <<"U+2CE2">>, <<"U+2CEB">>, <<"U+2CED">>,
     <<"U+2CF2">>, <<"U+10A0">>, <<"U+10A1">>, <<"U+10A2">>, <<"U+10A3">>, <<"U+10A4">>,
     <<"U+10A5">>, <<"U+10A6">>, <<"U+10A7">>, <<"U+10A8">>, <<"U+10A9">>, <<"U+10AA">>,
     <<"U+10AB">>, <<"U+10AC">>, <<"U+10AD">>, <<"U+10AE">>, <<"U+10AF">>, <<"U+10B0">>,
     <<"U+10B1">>, <<"U+10B2">>, <<"U+10B3">>, <<"U+10B4">>, <<"U+10B5">>, <<"U+10B6">>,
     <<"U+10B7">>, <<"U+10B8">>, <<"U+10B9">>, <<"U+10BA">>, <<"U+10BB">>, <<"U+10BC">>,
     <<"U+10BD">>, <<"U+10BE">>, <<"U+10BF">>, <<"U+10C0">>, <<"U+10C1">>, <<"U+10C2">>,
     <<"U+10C3">>, <<"U+10C4">>, <<"U+10C5">>, <<"U+10C7">>, <<"U+10CD">>, <<"U+A640">>,
     <<"U+A642">>, <<"U+A644">>, <<"U+A646">>, <<"U+A648">>, <<"U+A64A">>, <<"U+A64C">>,
     <<"U+A64E">>, <<"U+A650">>, <<"U+A652">>, <<"U+A654">>, <<"U+A656">>, <<"U+A658">>,
     <<"U+A65A">>, <<"U+A65C">>, <<"U+A65E">>, <<"U+A660">>, <<"U+A662">>, <<"U+A664">>,
     <<"U+A666">>, <<"U+A668">>, <<"U+A66A">>, <<"U+A66C">>, <<"U+A680">>, <<"U+A682">>,
     <<"U+A684">>, <<"U+A686">>, <<"U+A688">>, <<"U+A68A">>, <<"U+A68C">>, <<"U+A68E">>,
     <<"U+A690">>, <<"U+A692">>, <<"U+A694">>, <<"U+A696">>, <<"U+A698">>, <<"U+A69A">>,
     <<"U+A722">>, <<"U+A724">>, <<"U+A726">>, <<"U+A728">>, <<"U+A72A">>, <<"U+A72C">>,
     <<"U+A72E">>, <<"U+A732">>, <<"U+A734">>, <<"U+A736">>, <<"U+A738">>, <<"U+A73A">>,
     <<"U+A73C">>, <<"U+A73E">>, <<"U+A740">>, <<"U+A742">>, <<"U+A744">>, <<"U+A746">>,
     <<"U+A748">>, <<"U+A74A">>, <<"U+A74C">>, <<"U+A74E">>, <<"U+A750">>, <<"U+A752">>,
     <<"U+A754">>, <<"U+A756">>, <<"U+A758">>, <<"U+A75A">>, <<"U+A75C">>, <<"U+A75E">>,
     <<"U+A760">>, <<"U+A762">>, <<"U+A764">>, <<"U+A766">>, <<"U+A768">>, <<"U+A76A">>,
     <<"U+A76C">>, <<"U+A76E">>, <<"U+A779">>, <<"U+A77B">>, <<"U+A77E">>, <<"U+A780">>,
     <<"U+A782">>, <<"U+A784">>, <<"U+A786">>, <<"U+A78B">>, <<"U+A790">>, <<"U+A792">>,
     <<"U+A7C4">>, <<"U+A796">>, <<"U+A798">>, <<"U+A79A">>, <<"U+A79C">>, <<"U+A79E">>,
     <<"U+A7A0">>, <<"U+A7A2">>, <<"U+A7A4">>, <<"U+A7A6">>, <<"U+A7A8">>, <<"U+A7B4">>,
     <<"U+A7B6">>, <<"U+A7B8">>, <<"U+A7BA">>, <<"U+A7BC">>, <<"U+A7BE">>, <<"U+A7C0">>,
     <<"U+A7C2">>, <<"U+A7C7">>, <<"U+A7C9">>, <<"U+A7CC">>, <<"U+A7CE">>, <<"U+A7D0">>,
     <<"U+A7D2">>, <<"U+A7D4">>, <<"U+A7D6">>, <<"U+A7D8">>, <<"U+A7DA">>, <<"U+A7F5">>,
     <<"U+A7B3">>, <<"U+13A0">>, <<"U+13A1">>, <<"U+13A2">>, <<"U+13A3">>, <<"U+13A4">>,
     <<"U+13A5">>, <<"U+13A6">>, <<"U+13A7">>, <<"U+13A8">>, <<"U+13A9">>, <<"U+13AA">>,
     <<"U+13AB">>, <<"U+13AC">>, <<"U+13AD">>, <<"U+13AE">>, <<"U+13AF">>, <<"U+13B0">>,
     <<"U+13B1">>, <<"U+13B2">>, <<"U+13B3">>, <<"U+13B4">>, <<"U+13B5">>, <<"U+13B6">>,
     <<"U+13B7">>, <<"U+13B8">>, <<"U+13B9">>, <<"U+13BA">>, <<"U+13BB">>, <<"U+13BC">>,
     <<"U+13BD">>, <<"U+13BE">>, <<"U+13BF">>, <<"U+13C0">>, <<"U+13C1">>, <<"U+13C2">>,
     <<"U+13C3">>, <<"U+13C4">>, <<"U+13C5">>, <<"U+13C6">>, <<"U+13C7">>, <<"U+13C8">>,
     <<"U+13C9">>, <<"U+13CA">>, <<"U+13CB">>, <<"U+13CC">>, <<"U+13CD">>, <<"U+13CE">>,
     <<"U+13CF">>, <<"U+13D0">>, <<"U+13D1">>, <<"U+13D2">>, <<"U+13D3">>, <<"U+13D4">>,
     <<"U+13D5">>, <<"U+13D6">>, <<"U+13D7">>, <<"U+13D8">>, <<"U+13D9">>, <<"U+13DA">>,
     <<"U+13DB">>, <<"U+13DC">>, <<"U+13DD">>, <<"U+13DE">>, <<"U+13DF">>, <<"U+13E0">>,
     <<"U+13E1">>, <<"U+13E2">>, <<"U+13E3">>, <<"U+13E4">>, <<"U+13E5">>, <<"U+13E6">>,
     <<"U+13E7">>, <<"U+13E8">>, <<"U+13E9">>, <<"U+13EA">>, <<"U+13EB">>, <<"U+13EC">>,
     <<"U+13ED">>, <<"U+13EE">>, <<"U+13EF">>, <<"F","F">>, <<"F","I">>, <<"F","L">>,
     <<"F","F","I">>, <<"F","F","L">>, <<"S","T">>, <<"S","T">>, <<"U+0544","U+0546">>,
     <<"U+0544","U+0535">>, <<"U+0544","U+053B">>, <<"U+054E","U+0546">>,
     <<"U+0544","U+053D">>, <<"U+FF21">>, <<"U+FF22">>, <<"U+FF23">>, <<"U+FF24">>,
     <<"U+FF25">>, <<"U+FF26">>, <<"U+FF27">>, <<"U+FF28">>, <<"U+FF29">>, <<"U+FF2A">>,
     <<"U+FF2B">>, <<"U+FF2C">>, <<"U+FF2D">>, <<"U+FF2E">>, <<"U+FF2F">>, <<"U+FF30">>,
     <<"U+FF31">>, <<"U+FF32">>, <<"U+FF33">>, <<"U+FF34">>, <<"U+FF35">>, <<"U+FF36">>,
     <<"U+FF37">>, <<"U+FF38">>, <<"U+FF39">>, <<"U+FF3A">>
  >>

\* c.toUpperCase() of one code unit, as a sequence of code units.  A code unit
\* that is half of a surrogate pair is none of CasedUnits and stays as it is.
ToUpperCase(c) ==
  IF \E i \in 1..Len(CasedUnits) : CasedUnits[i] = c
  THEN UpperCaseOf[CHOOSE i \in 1..Len(CasedUnits) : CasedUnits[i] = c]
  ELSE << c >>

\* role_name.charAt(0).toUpperCase() + role_name.slice(1)
Capitalize(s) ==
  IF s = <<>> THEN <<>> ELSE ToUpperCase(s[1]) \o Tail(s)

RoleContributor == << "C","o","n","t","r","i","b","u","t","o","r" >>
RoleAdmin == << "A","d","m","i","n" >>
RoleMaintainer == << "M","a","i","n","t","a","i","n","e","r" >>
RoleRead == << "R","e","a","d" >>
RoleCollaborator == << "C","o","l","l","a","b","o","r","a","t","o","r" >>
RoleWrite == << "W","r","i","t","e" >>

\* a settled request whose response is there and ok
Succeeded(settled) == settled.status = "fulfilled" /\ IsOk(settled.value)

\* An optional string that is truthy: present and not empty.
Truthy(opt) == opt # None /\ opt[1] # ""
TruthySeq(opt) == opt # None /\ opt[1] # <<>>

\* publicEmails
EmailsOf(userResult) ==
  IF Succeeded(userResult) /\ Truthy(userResult.value.body.email)
  THEN << userResult.value.body.email[1] >>
  ELSE <<>>

\* The mutant of RoleOfLevel: the level write is named "Write".
RoleOfLevelWriteIsWrite(level) ==
  CASE level = "admin" -> RoleAdmin
    [] level = "write" -> << "W","r","i","t","e" >>
    [] level = "read"  -> RoleRead
    [] OTHER           -> RoleCollaborator

\* the switch on permissionData.permission
RoleOfLevel(level) ==
  CASE level = "admin" -> RoleAdmin
    [] level = "write" -> RoleMaintainer
    [] level = "read"  -> RoleRead
    [] OTHER           -> RoleCollaborator

\* the flags of the coarse permission level
FlagsOfLevel(level) ==
  CASE level = "admin" -> << "admin", "push", "pull" >>
    [] level = "write" -> << "push", "pull" >>
    [] level = "read"  -> << "pull" >>
    [] OTHER           -> <<>>

\* Object.keys(permissions).filter(p => permissions[p] === true)
TrueFlags(flags) ==
  LET keep == [i \in 1..Len(flags) |-> flags[i].value]
      idx  == SelectIdx(keep, 1, Len(flags))
  IN  [k \in 1..Len(idx) |-> flags[idx[k]].name]

\* The mutant of RoleInfoOf: a failed lookup leaves the role empty.
RoleInfoOfNoDefault(permissionResult) ==
  IF Succeeded(permissionResult)
  THEN LET d == permissionResult.value.body
       IN  [role |-> IF TruthySeq(d.role_name) THEN Capitalize(d.role_name[1])
                     ELSE IF Truthy(d.permission) THEN RoleOfLevel(d.permission[1])
                     ELSE RoleContributor,
            permissions |-> IF d.permissions # None THEN TrueFlags(d.permissions[1])
                            ELSE IF Truthy(d.permission) THEN FlagsOfLevel(d.permission[1])
                            ELSE <<>>]
  ELSE [role |-> <<>>, permissions |-> <<>>]

\* role and permissions: the defaults, replaced on a successful lookup
RoleInfoOf(permissionResult) ==
  IF Succeeded(permissionResult)
  THEN LET d == permissionResult.value.body
       IN  [role |-> IF TruthySeq(d.role_name) THEN Capitalize(d.role_name[1])
                     ELSE IF Truthy(d.permission) THEN RoleOfLevel(d.permission[1])
                     ELSE RoleContributor,
            permissions |-> IF d.permissions # None THEN TrueFlags(d.permissions[1])
                            ELSE IF Truthy(d.permission) THEN FlagsOfLevel(d.permission[1])
                            ELSE <<>>]
  ELSE [role |-> RoleContributor, permissions |-> <<>>]

\* repoRole of one entry of the user's repositories
RepoRoleOf(repo) ==
  IF repo.permissions # None
  THEN IF repo.permissions[1].admin THEN RoleAdmin
       ELSE IF repo.permissions[1].push THEN RoleWrite
       ELSE RoleRead
  ELSE RoleRead

\* The mutant of ExcludeTarget: nothing is excluded.
ExcludeTargetKeepsAll(reposData, repoName) == reposData

\* reposData.filter(repo => repo.full_name !== repoName)
ExcludeTarget(reposData, repoName) ==
  LET keep == [i \in 1..Len(reposData) |-> reposData[i].full_name # repoName]
      idx  == SelectIdx(keep, 1, Len(reposData))
  IN  [k \in 1..Len(idx) |-> reposData[idx[k]]]

\* externalRepos
ExternalReposOf(reposResult, repoName) ==
  IF Succeeded(reposResult) /\ reposResult.value.body.json = "array"
  THEN LET kept == ExcludeTarget(reposResult.value.body.items, repoName)
       IN  [k \in 1..Len(kept) |->
              [name |-> kept[k].full_name, url |-> kept[k].html_url,
               role |-> RepoRoleOf(kept[k])]]
  ELSE <<>>

\* the three sections of a callback, in the order of the code
Sections == << "user", "perm", "repos" >>

\* Reading the body of an answered request raises: response.json() rejects (the
\* body is no JSON, or the connection ends while it is read), or a property is
\* read of null (a body that is JSON null, a null entry of the repositories).
BodyThrows(section, body) ==
  \/ body.json \in {"malformed", "terminated"}
  \/ section \in {"user", "perm"} /\ body.json = "null"
  \/ /\ section = "repos"
     /\ body.json = "array"
     /\ \E i \in 1..Len(body.items) : body.items[i].isNull

\* the Error raised then
BodyError(section, body) ==
  IF body.json = "malformed" THEN Msg("JsonSyntax")
  ELSE IF body.json = "terminated" THEN Msg("BodyRead")
  ELSE Msg("NullProperty")

\* The mutant of ProcessingThrows: a rejected request raises as well.
ProcessingThrowsOnRejection(results) ==
  \/ \E k \in 1..3 : results[Sections[k]].status = "rejected"
  \/ \E k \in 1..3 :
       /\ Succeeded(results[Sections[k]])
       /\ BodyThrows(Sections[k], results[Sections[k]].value.body)

\* Whether the processing of the settled results raises: the body of one of
\* the answered requests does.
ProcessingThrows(results) ==
  \E k \in 1..3 :
    /\ Succeeded(results[Sections[k]])
    /\ BodyThrows(Sections[k], results[Sections[k]].value.body)

\* The section whose body a callback reads next when it goes on at section
\* from: the first answered request from there on ("end" when none is left).
NextRead(results, from) ==
  IF \E k \in from..3 : Succeeded(results[Sections[k]])
  THEN Sections[CHOOSE k \in from..3 :
                  /\ Succeeded(results[Sections[k]])
                  /\ \A j \in from..(k - 1) : ~Succeeded(results[Sections[j]])]
  ELSE "end"

\* the position of a section in the code ("end": after the last)
SectionIndex(section) ==
  IF section = "end" THEN 4 ELSE CHOOSE k \in 1..3 : Sections[k] = section

\* typeof contributor.login === 'string' on an entry that is not falsy
HasLogin(contributor) == contributor.isObject /\ contributor.login # None

NullInfo ==
  [username |-> "",
   roleInfo |-> [role |-> <<>>, permissions |-> <<>>],
   activities |-> [pullRequests |-> 0, commits |-> 0, issuesOpened |-> 0],
   externalRepos |-> <<>>,
   emails |-> <<>>]
NullSlot == [isNull |-> TRUE, info |-> NullInfo]

\* contributor.contributions || 0
CommitsOf(contributor) ==
  IF contributor.contributions # None THEN contributor.contributions[1] ELSE 0

\* The mutant of ProcessContributor: the all-or-nothing join, where one
\* rejected request loses the contributor.
ProcessContributorAllOrNothing(contributor, results, repoName) ==
  IF \/ ProcessingThrows(results)
     \/ results.user.status = "rejected"
     \/ results.perm.status = "rejected"
     \/ results.repos.status = "rejected"
  THEN NullSlot
  ELSE [isNull |-> FALSE,
        info |-> [username |-> contributor.login[1],
                  roleInfo |-> RoleInfoOf(results.perm),
                  activities |-> [pullRequests |-> 0,
                                  commits |-> CommitsOf(contributor),
                                  issuesOpened |-> 0],
                  externalRepos |-> ExternalReposOf(results.repos, repoName),
                  emails |-> EmailsOf(results.user)]]

\* What the callback of limitedContributors.map resolves to for an entry with a
\* login, once Promise.allSettled of its three requests has resolved.
ProcessContributor(contributor, results, repoName) ==
  IF ProcessingThrows(results) THEN NullSlot
  ELSE [isNull |-> FALSE,
        info |-> [username |-> contributor.login[1],
                  roleInfo |-> RoleInfoOf(results.perm),
                  activities |-> [pullRequests |-> 0,
                                  commits |-> CommitsOf(contributor),
                                  issuesOpened |-> 0],
                  externalRepos |-> ExternalReposOf(results.repos, repoName),
                  emails |-> EmailsOf(results.user)]]

(***************************************************************************)
(* github.ts: truncation and the join.                                     *)
(***************************************************************************)
\* The mutant of LimitedContributors: the entries without a login are removed
\* before the cap is applied.
LimitedContributorsValidFirst(contributorsData) ==
  LET keep  == [i \in 1..Len(contributorsData) |-> HasLogin(contributorsData[i])]
      idx   == SelectIdx(keep, 1, Len(contributorsData))
      valid == [k \in 1..Len(idx) |-> contributorsData[idx[k]]]
  IN  SubSeq(valid, 1, IF Len(valid) < ProcessCap THEN Len(valid) ELSE ProcessCap)

\* The mutant of LimitedContributors: the whole list is processed.
LimitedContributorsNoCap(contributorsData) == contributorsData

\* contributorsData.slice(0, 50)
LimitedContributors(contributorsData) ==
  SubSeq(contributorsData, 1,
         IF Len(contributorsData) < ProcessCap THEN Len(contributorsData) ELSE ProcessCap)

\* The mutant of ValidResults: the callbacks share one e-mail list, and every
\* record shows what the last of them left in it.
ValidResultsSharedEmails(slotSeq, order) ==
  LET keep == [i \in 1..Len(slotSeq) |-> ~slotSeq[i].isNull]
      idx  == SelectIdx(keep, 1, Len(slotSeq))
  IN  [k \in 1..Len(idx) |->
         [slotSeq[idx[k]].info EXCEPT
            !.emails = slotSeq[idx[Len(idx)]].info.emails]]

\* The mutant of ValidResults: the records in the order their callbacks finished.
ValidResultsByCompletion(slotSeq, order) ==
  LET keep == [k \in 1..Len(order) |-> ~slotSeq[order[k]].isNull]
      idx  == SelectIdx(keep, 1, Len(order))
  IN  [k \in 1..Len(idx) |-> slotSeq[order[idx[k]]].info]

\* (await Promise.all(contributorInfoPromises)).filter(info => info !== null):
\* Promise.all keeps the order of the promises, whatever the order in which
\* they were fulfilled (order).
ValidResults(slotSeq, order) ==
  LET keep == [i \in 1..Len(slotSeq) |-> ~slotSeq[i].isNull]
      idx  == SelectIdx(keep, 1, Len(slotSeq))
  IN  [k \in 1..Len(idx) |-> slotSeq[idx[k]].info]

\* The mutant of JoinOutcome: a callback that resolved to null rejects the join.
JoinOutcomeRejectsOnNull(slotSeq, order) ==
  IF \E i \in 1..Len(slotSeq) : slotSeq[i].isNull
  THEN [threw |-> TRUE, error |-> Msg("Processing"), data |-> <<>>]
  ELSE [threw |-> FALSE, error |-> NoMsg, data |-> ValidResults(slotSeq, order)]

\* Lines 313-318: what getRepoContributors leaves after the join.  Every
\* callback returns on each of its paths (the skip, the record, the catch), so
\* no promise handed to Promise.all rejects.
JoinOutcome(slotSeq, order) ==
  [threw |-> FALSE, error |-> NoMsg, data |-> ValidResults(slotSeq, order)]

(***************************************************************************)
(* github.ts: the primary request.                                         *)
(***************************************************************************)
\* what a part of getRepoContributors leaves: the Error it raises, or a value
Raises(error) == [threw |-> TRUE, error |-> error, data |-> <<>>]
Yields(data) == [threw |-> FALSE, error |-> NoMsg, data |-> data]
NoOutcome == Yields(<<>>)

\* The mutant of BaseResponseOutcome: the status of the response is not looked at.
BaseResponseOutcomeIgnoresStatus(resp, repoName, zone) ==
  LET settled == SafeFetch(Url("contributors", "", repoName), resp)
  IN  IF settled.status = "rejected" THEN Raises(settled.reason)
      ELSE Yields(<<>>)

\* Lines 163-170: the contributors request has settled.  safeFetch raises, or
\* the status is not 2xx and handleApiError raises, or the body is read next.
BaseResponseOutcome(resp, repoName, zone) ==
  LET settled == SafeFetch(Url("contributors", "", repoName), resp)
  IN  IF settled.status = "rejected" THEN Raises(settled.reason)
      ELSE IF ~IsOk(resp) THEN Raises(HandleApiError(resp, repoName, zone))
      ELSE Yields(<<>>)

\* The mutant of BaseDataOutcome: a decoded body that is no list counts as a
\* list without entries.
BaseDataOutcomeNonListIsEmpty(body) ==
  IF body.json = "malformed" THEN Raises(Msg("JsonSyntax"))
  ELSE IF body.json = "terminated" THEN Raises(Msg("BodyRead"))
  ELSE Yields(body.items)

\* The mutant of BaseDataOutcome: a list without entries is treated as a failure.
BaseDataOutcomeEmptyIsError(body) ==
  IF body.json = "malformed" THEN Raises(Msg("JsonSyntax"))
  ELSE IF body.json = "terminated" THEN Raises(Msg("BodyRead"))
  ELSE IF body.json # "array" \/ body.items = <<>> THEN Raises(Msg("DataFormat"))
  ELSE Yields(body.items)

\* Lines 171-176: contributorsRes.json() has settled.  It rejects (the body is
\* no JSON, or the connection ends while it is read), or the value is no array
\* and the data-format Error is raised, or it is contributorsData.
BaseDataOutcome(body) ==
  IF body.json = "malformed" THEN Raises(Msg("JsonSyntax"))
  ELSE IF body.json = "terminated" THEN Raises(Msg("BodyRead"))
  ELSE IF body.json # "array" THEN Raises(Msg("DataFormat"))
  ELSE Yields(body.items)

\* Lines 162-183 as a whole: what the try block leaves, given the response of
\* the contributors request.
BaseOutcome(resp, repoName, zone) ==
  LET answered == BaseResponseOutcome(resp, repoName, zone)
  IN  IF answered.threw THEN answered ELSE BaseDataOutcome(resp.body)

\* One request: the parts of its URL, and its Authorization header.
Request(endpoint, login, repo, token) ==
  [endpoint |-> endpoint, login |-> login, repo |-> repo, auth |-> token]

\* the URL of a request, and the URLs of a sequence of requests
UrlOf(r) == Url(r.endpoint, r.login, r.repo)
UrlsOf(rs) == [k \in 1..Len(rs) |-> UrlOf(rs[k])]

RECURSIVE DetailRequestsForAll(_, _, _)
\* The mutant of DetailRequests: an entry without a login gets its three
\* requests as well, for the empty login.
DetailRequestsForAll(limited, repo, token) ==
  IF limited = <<>> THEN <<>>
  ELSE LET login == IF HasLogin(Head(limited)) THEN Head(limited).login[1] ELSE ""
       IN  << Request("user", login, repo, token),
              Request("perm", login, repo, token),
              Request("repos", login, repo, token) >>
           \o DetailRequestsForAll(Tail(limited), repo, token)

RECURSIVE DetailRequestsRetryProfile(_, _, _)
\* The mutant of DetailRequests: the profile request is issued a second time.
DetailRequestsRetryProfile(limited, repo, token) ==
  IF limited = <<>> THEN <<>>
  ELSE (IF HasLogin(Head(limited))
        THEN << Request("user", Head(limited).login[1], repo, token),
                Request("user", Head(limited).login[1], repo, token),
                Request("perm", Head(limited).login[1], repo, token),
                Request("repos", Head(limited).login[1], repo, token) >>
        ELSE <<>>)
       \o DetailRequestsRetryProfile(Tail(limited), repo, token)

RECURSIVE DetailRequests(_, _, _)
\* The requests the map callbacks issue, in the order of the list: three for
\* every entry with a login, none for an entry that is skipped.
DetailRequests(limited, repo, token) ==
  IF limited = <<>> THEN <<>>
  ELSE (IF HasLogin(Head(limited))
        THEN << Request("user", Head(limited).login[1], repo, token),
                Request("perm", Head(limited).login[1], repo, token),
                Request("repos", Head(limited).login[1], repo, token) >>
        ELSE <<>>)
       \o DetailRequests(Tail(limited), repo, token)

(***************************************************************************)
(* actions.ts                                                              *)
(***************************************************************************)
\* The mutant of Failure: the error leaves the action, which returns nothing.
FailurePropagates(msg) == [success |-> FALSE, data |-> <<>>, error |-> NoMsg]

\* the two shapes of FetchContributorsResult, and no result yet
Failure(msg) == [success |-> FALSE, data |-> <<>>, error |-> msg]
Success(data) == [success |-> TRUE, data |-> data, error |-> NoMsg]
NoResult == [success |-> FALSE, data |-> <<>>, error |-> NoMsg]

\* The mutant of ValidationIssues: the token is not checked.
ValidationIssuesRepoOnly(repoFullName, githubToken) ==
  IF Len(repoFullName) < 1 THEN << "Repository name is required." >> ELSE <<>>

\* RepoInputSchema.safeParse: the messages of the failed checks, in order
ValidationIssues(repoFullName, githubToken) ==
  (IF Len(repoFullName) < 1 THEN << "Repository name is required." >> ELSE <<>>)
  \o (IF githubToken = "" THEN << "GitHub token is required." >> ELSE <<>>)

(***************************************************************************)
(* The console: a line is given by the statement that wrote it and the     *)
(* values it interpolates.                                                 *)
(***************************************************************************)
Log(site, repo, login, error, n) ==
  [site |-> site, repo |-> repo, login |-> login, endpoint |-> "",
   error |-> error, n |-> n]

\* safeFetch, line 94: written when fetch rejects with an Error, with the URL
\* and the message of that Error
FetchLines(url, resp) ==
  IF resp.net = "error"
  THEN { [Log("github:94", url.repo, url.login,
                [Msg("Fetch") EXCEPT !.quoted = resp.quoted], 0)
            EXCEPT !.endpoint = url.endpoint] }
  ELSE {}

\* The warning of one section of a callback whose request was not answered
\* with a 2xx status: lines 220 and 222, 255 and 257 (a 404 of the permission
\* lookup is not reported), 285 and 287.
WarnLines(section, login, repo, settled) ==
  IF Succeeded(settled) THEN {}
  ELSE IF section = "user"
  THEN IF settled.status = "rejected"
       THEN { Log("github:220", <<>>, login, settled.reason, 0) }
       ELSE { Log("github:222", <<>>, login, NoMsg, settled.value.status) }
  ELSE IF section = "perm"
  THEN IF settled.status = "rejected"
       THEN { Log("github:255", repo, login, settled.reason, 0) }
       ELSE IF settled.value.status # 404
       THEN { Log("github:257", repo, login, NoMsg, settled.value.status) }
       ELSE {}
  ELSE IF settled.status = "rejected"
       THEN { Log("github:285", <<>>, login, settled.reason, 0) }
       ELSE { Log("github:287", <<>>, login, NoMsg, settled.value.status) }

\* the warnings of the sections from..to of a callback
SectionLines(login, repo, results, from, to) ==
  UNION { WarnLines(Sections[k], login, repo, results[Sections[k]]) : k \in from..to }

\* lines 195 and 199: the line the callback of entry i writes when it starts
EntryLine(contributor, i) ==
  IF HasLogin(contributor)
  THEN Log("github:199", <<>>, contributor.login[1], NoMsg, 0)
  ELSE Log("github:195", <<>>, "", NoMsg, i)

\* lines 177, 190, 195 and 199: written once contributorsData is an array
ListLines(contributorsData, repoName) ==
  { Log("github:177", repoName, "", NoMsg, Len(contributorsData)) } \cup
  (IF Len(contributorsData) > ProcessCap
   THEN { Log("github:190", repoName, "", NoMsg, Len(contributorsData)) }
   ELSE {}) \cup
  { EntryLine(contributorsData[i], i) :
      i \in 1..Len(LimitedContributors(contributorsData)) }

\* lines 174 and 180: written when the try block of lines 162-183 raises
BaseErrorLines(error, repoName) ==
  { Log("github:180", repoName, "", error, 0) } \cup
  (IF error.kind = "DataFormat"
   THEN { Log("github:174", repoName, "", NoMsg, 0) } ELSE {})

(***************************************************************************)
(* The state.                                                              *)
(***************************************************************************)
VARIABLES
  isLoading,            \* page: useState
  contributors,         \* page: useState
  selectedContributor,  \* page: useState, an optional ContributorInfo
  errorOccurred,        \* page: useState, an optional message
  repoName,             \* page: useState, an optional repository name
  isSubmitted,          \* page: form.formState.isSubmitted
  submissions,          \* page: the submissions of the form so far, in order
  pageConsole,          \* the lines onSubmit has written to the browser's console
  runs,                 \* server: the calls of fetchContributorsAction so far, in order
  console               \* the lines written to the server's console

vars ==
  << isLoading, contributors, selectedContributor, errorOccurred, repoName,
     isSubmitted, submissions, pageConsole, runs, console >>

pageState ==
  << isLoading, contributors, selectedContributor, errorOccurred, repoName,
     isSubmitted >>
pageVars == << pageState, submissions, pageConsole >>

\* body shapes of the three detail endpoints, and of the base endpoint
NoUserBody == [json |-> "malformed", email |-> None]
NoPermBody ==
  [json |-> "malformed", role_name |-> None, permission |-> None, permissions |-> None]
NoReposBody == [json |-> "malformed", items |-> <<>>]
NoBaseBody == [json |-> "malformed", items |-> <<>>]

Response(status, statusText, body) ==
  [net |-> "ok", status |-> status, statusText |-> statusText,
   remaining |-> None, reset |-> None, body |-> body, quoted |-> ""]
\* fetch rejects with an Error; quoted is the request data its message quotes
NetworkError(body) ==
  [net |-> "error", status |-> 0, statusText |-> "",
   remaining |-> None, reset |-> None, body |-> body, quoted |-> ""]
\* fetch rejects with a value that is no Error
NetworkThrow(body) ==
  [net |-> "thrown", status |-> 0, statusText |-> "",
   remaining |-> None, reset |-> None, body |-> body, quoted |-> ""]

\* the Authorization header of a request: `Bearer ${githubToken}` (line 154)
Authorization(token) == "Bearer " \o token
\* A token is kept as one string; fetch reads the header made from it code
\* unit by code unit.  The code units of the tokens of the model:
BrokenToken == "t\n4"
WideToken == "t<U+20AC>"
CodeUnitsOf(token) ==
  CASE token = ""          -> <<>>
    [] token = "t1"        -> << "t", "1" >>
    [] token = "t2"        -> << "t", "2" >>
    [] token = "t3"        -> << "t", "3" >>
    [] token = BrokenToken -> << "t", "\n", "4" >>
    [] token = WideToken   -> << "t", "U+20AC" >>
HeaderUnits(token) == << "B", "e", "a", "r", "e", "r", " " >> \o CodeUnitsOf(token)
\* The code units up to U+00FF.  fetch converts a header value to a byte
\* string, which a value with any other code unit is not.  (The grave accent
\* is written by the name of its code point.)
ByteUnits ==
  {
    "U+0000", "U+0001", "U+0002", "U+0003", "U+0004", "U+0005", "U+0006",
    "U+0007", "U+0008", "\t", "\n", "U+000B", "U+000C", "\r", "U+000E",
    "U+000F", "U+0010", "U+0011", "U+0012", "U+0013", "U+0014", "U+0015",
    "U+0016", "U+0017", "U+0018", "U+0019", "U+001A", "U+001B", "U+001C",
    "U+001D", "U+001E", "U+001F", " ", "!", "\"", "#", "$", "%", "&", "'",
    "(", ")", "*", "+", ",", "-", ".", "/", "0", "1", "2", "3", "4", "5",
    "6", "7", "8", "9", ":", ";", "<", "=", ">", "?", "@", "A", "B", "C",
    "D", "E", "F", "G", "H", "I", "J", "K", "L", "M", "N", "O", "P", "Q",
    "R", "S", "T", "U", "V", "W", "X", "Y", "Z", "[", "\\", "]", "^", "_",
    "U+0060", "a", "b", "c", "d", "e", "f", "g", "h", "i", "j", "k", "l", "m",
    "n", "o", "p", "q", "r", "s", "t", "u", "v", "w", "x", "y", "z", "{",
    "|", "}", "~", "U+007F", "U+0080", "U+0081", "U+0082", "U+0083",
    "U+0084", "U+0085", "U+0086", "U+0087", "U+0088", "U+0089", "U+008A",
    "U+008B", "U+008C", "U+008D", "U+008E", "U+008F", "U+0090", "U+0091",
    "U+0092", "U+0093", "U+0094", "U+0095", "U+0096", "U+0097", "U+0098",
    "U+0099", "U+009A", "U+009B", "U+009C", "U+009D", "U+009E", "U+009F",
    "U+00A0", "U+00A1", "U+00A2", "U+00A3", "U+00A4", "U+00A5", "U+00A6",
    "U+00A7", "U+00A8", "U+00A9", "U+00AA", "U+00AB", "U+00AC", "U+00AD",
    "U+00AE", "U+00AF", "U+00B0", "U+00B1", "U+00B2", "U+00B3", "U+00B4",
    "U+00B5", "U+00B6", "U+00B7", "U+00B8", "U+00B9", "U+00BA", "U+00BB",
    "U+00BC", "U+00BD", "U+00BE", "U+00BF", "U+00C0", "U+00C1", "U+00C2",
    "U+00C3", "U+00C4", "U+00C5", "U+00C6", "U+00C7", "U+00C8", "U+00C9",
    "U+00CA", "U+00CB", "U+00CC", "U+00CD", "U+00CE", "U+00CF", "U+00D0",
    "U+00D1", "U+00D2", "U+00D3", "U+00D4", "U+00D5", "U+00D6", "U+00D7",
    "U+00D8", "U+00D9", "U+00DA", "U+00DB", "U+00DC", "U+00DD", "U+00DE",
    "U+00DF", "U+00E0", "U+00E1", "U+00E2", "U+00E3", "U+00E4", "U+00E5",
    "U+00E6", "U+00E7", "U+00E8", "U+00E9", "U+00EA", "U+00EB", "U+00EC",
    "U+00ED", "U+00EE", "U+00EF", "U+00F0", "U+00F1", "U+00F2", "U+00F3",
    "U+00F4", "U+00F5", "U+00F6", "U+00F7", "U+00F8", "U+00F9", "U+00FA",
    "U+00FB", "U+00FC", "U+00FD", "U+00FE", "U+00FF"
  }
IsByteString(units) == \A i \in 1..Len(units) : units[i] \in ByteUnits
\* the first code unit of a value that is above U+00FF
FirstWideUnit(units) ==
  units[CHOOSE i \in 1..Len(units) :
          /\ units[i] \notin ByteUnits
          /\ \A j \in 1..(i - 1) : units[j] \in ByteUnits]
\* fetch removes the HTTP white space at the ends of a header value
HttpWhiteSpace == { "\t", "\n", "\r", " " }
RECURSIVE TrimEnd(_)
TrimEnd(units) ==
  IF units # <<>> /\ units[Len(units)] \in HttpWhiteSpace
  THEN TrimEnd(SubSeq(units, 1, Len(units) - 1))
  ELSE units
\* and takes the rest as a header value when it holds no NUL, CR or LF
IsHeaderValue(units) ==
  /\ IsByteString(units)
  /\ \A i \in 1..Len(TrimEnd(units)) : TrimEnd(units)[i] \notin { "U+0000", "\r", "\n" }
\* await fetch(url, { ...options, cache: 'no-store' }) (line 89) of a request
\* with the given token, which the API would answer with resp: a header value
\* fetch does not take makes it reject, before anything is sent, with a
\* TypeError.  For a value that is no byte string the message names the place
\* and the number of its first code unit above U+00FF; for a byte string with
\* a NUL, CR or LF the message quotes the value.  (The tokens of the model end
\* in no white space, so the value quoted is the header as the code built it.)
Fetch(token, resp) ==
  IF IsHeaderValue(HeaderUnits(token))
  THEN resp
  ELSE IF ~IsByteString(HeaderUnits(token))
  THEN [NetworkError(resp.body) EXCEPT !.quoted = FirstWideUnit(HeaderUnits(token))]
  ELSE [NetworkError(resp.body) EXCEPT !.quoted = Authorization(token)]

\* one request of an entry: not issued, in flight, or settled
Unsettled(state, body) ==
  [state |-> state, settled |-> SafeFetch(NoUrl, NetworkError(body))]
Settled(url, resp) == [state |-> "settled", settled |-> SafeFetch(url, resp)]

\* One submission of the form: the values submitted; how far it is ("invalid":
\* the resolver rejected the values; "badFormat": onSubmit returned at line 76;
\* "calling": onSubmit awaits the action at line 85; "delivered": the call
\* resolved and onSubmit has finished; "failed": the call rejected and onSubmit
\* has finished); the arguments of its call; the run of the action that
\* received the call (0: none has).
Arguments(repoFullName, githubToken) ==
  [repoFullName |-> repoFullName, githubToken |-> githubToken]
Submission(repo, token, stage, args) ==
  [values |-> [repo |-> repo, token |-> token], stage |-> stage, args |-> args,
   run |-> 0]

\* One call of fetchContributorsAction, from the first statement of the action.
\* pc is where it is: "base" is in safeFetch, called at github.ts 163, and
\* awaits fetch at line 89; "fetched" awaits safeFetch at 163, whose promise has
\* settled; "body" awaits contributorsRes.json() at 171, "fanout" awaits Promise.all at 314, "settled"
\* awaits getRepoContributors at actions.ts 36 whose promise has settled,
\* "returned" has returned.
NewRun(caller, submission, args) ==
  [caller |-> caller,              \* who made the call: "page" or "direct"
   submission |-> submission,      \* the submission that made it (0: none)
   args |-> args,
   pc |-> "base",
   requests |-> << Request("contributors", "", args.repoFullName, args.githubToken) >>,
   contributorsRes |-> None,       \* the optional response of the base request
   contributorsData |-> <<>>,      \* the decoded base list
   sub |-> <<>>,                   \* per processed entry: its three requests
   slots |-> <<>>,                 \* per processed entry: where its callback is
   order |-> <<>>,                 \* the entries in the order their callbacks resolved
   outcome |-> NoOutcome,          \* what getRepoContributors left
   result |-> NoResult]            \* the FetchContributorsResult returned

\* the calls made so far: the submissions of the form and the direct calls
Started ==
  Len(submissions) + Cardinality({ k \in 1..Len(runs) : runs[k].caller = "direct" })

Init ==
  /\ isLoading = FALSE
  /\ contributors = <<>>
  /\ selectedContributor = None
  /\ errorOccurred = None
  /\ repoName = None
  /\ isSubmitted = FALSE
  /\ submissions = <<>>
  /\ pageConsole = {}
  /\ runs = <<>>
  /\ console = {}

(***************************************************************************)
(* The steps.  Each is the code that runs between two awaits: no other     *)
(* handler or continuation of the same process runs in between.            *)
(***************************************************************************)
\* fetchContributorsAction from its first statement to its first await: the
\* validation, and actions.ts 35 and github.ts 150-163 when it passes.
CallAction(caller, submission, args) ==
  LET issues == ValidationIssues(args.repoFullName, args.githubToken)
      run    == NewRun(caller, submission, args)
  IN  IF issues # <<>>
      THEN /\ runs' = Append(runs,
                        [run EXCEPT !.pc = "returned",
                                    !.requests = <<>>,
                                    !.result = Failure([Msg("Validation") EXCEPT
                                                          !.issues = issues])])
           /\ UNCHANGED console
      ELSE /\ runs' = Append(runs, run)
           /\ console' = console \cup
                { Log("actions:35", args.repoFullName, "", NoMsg, 0),
                  Log("github:150", args.repoFullName, "", NoMsg, 0) }

\* A submit event of the form while the button is enabled (disabled=
\* {isLoading}, line 183): form.handleSubmit(onSubmit).  The resolver rejects
\* the values, or onSubmit runs up to its await of the server action, whose
\* call is sent to the server.  limit bounds the calls a behaviour makes.
Submit(repos, tokens, limit) ==
  /\ ~isLoading
  /\ Started < limit
  /\ \E repo \in repos, token \in tokens :
       IF ~FormValid(repo, token)
       THEN /\ isSubmitted' = TRUE
            /\ submissions' = Append(submissions,
                 Submission(repo, token, "invalid", Arguments(<<>>, "")))
            /\ UNCHANGED << isLoading, contributors, selectedContributor,
                            errorOccurred, repoName, pageConsole >>
       ELSE LET repoMatch == RepoMatch(repo)
            IN  /\ contributors' = <<>>
                /\ selectedContributor' = None
                /\ IF ~repoMatch.matched \/ repoMatch.group1 = <<>>
                   THEN /\ isLoading' = FALSE
                        /\ errorOccurred' = Some(Msg("InvalidFormat"))
                        /\ repoName' = None
                        /\ isSubmitted' = TRUE
                        /\ submissions' = Append(submissions,
                             Submission(repo, token, "badFormat", Arguments(<<>>, "")))
                        /\ UNCHANGED pageConsole
                   ELSE /\ isLoading' = TRUE
                        /\ errorOccurred' = None
                        /\ repoName' = Some(repoMatch.group1)
                        /\ submissions' = Append(submissions,
                             Submission(repo, token, "calling",
                                        Arguments(repoMatch.group1, token)))
                        /\ pageConsole' = pageConsole \cup
                             { Log("page:84", repoMatch.group1, "", NoMsg, 0) }
                        /\ UNCHANGED isSubmitted
  /\ UNCHANGED << runs, console >>

\* The server receives the call of a submission and runs the action up to its
\* first await.  The call may have been given up by the page in the meantime.
ActionReceives ==
  /\ \E s \in 1..Len(submissions) :
       /\ submissions[s].stage \in {"calling", "failed"}
       /\ submissions[s].run = 0
       /\ CallAction("page", s, submissions[s].args)
       /\ submissions' = [submissions EXCEPT ![s].run = Len(runs) + 1]
  /\ UNCHANGED << pageState, pageConsole >>

\* fetchContributorsAction called by a client other than the page, at any time.
DirectCall(calls, limit) ==
  /\ Started < limit
  /\ \E c \in calls : CallAction("direct", 0, c)
  /\ UNCHANGED << pageVars >>

\* the offsets from UTC the zone of the server process may have at the instant
\* of a reset time, as seconds east of UTC (0 - 2670 and 21208 are local mean
\* times, of Monrovia and of Kolkata)
TimeZones == { 0 - 18000, 0 - 2670, 0, 19800, 21208, 32400 }

\* fetch of the contributors request of a run settles: safeFetch goes on after
\* its await at line 89 and returns the response, or writes line 94 and throws.
BaseFetchSettles(responses) ==
  /\ \E k \in 1..Len(runs), resp \in responses :
       /\ runs[k].pc = "base"
       /\ LET got == Fetch(runs[k].requests[1].auth, resp)
          IN  /\ runs' = [runs EXCEPT ![k].contributorsRes = Some(got),
                                       ![k].pc = "fetched"]
              /\ console' = console \cup FetchLines(UrlOf(runs[k].requests[1]), got)
  /\ UNCHANGED << pageVars >>

\* safeFetch of the contributors request of a run has settled:
\* getRepoContributors goes on after its await at line 163, up to the await of
\* contributorsRes.json() at line 171 or through its catch, lines 179-183.
BaseSettles ==
  /\ \E k \in 1..Len(runs), zone \in TimeZones :
       /\ runs[k].pc = "fetched"
       /\ LET repo == runs[k].args.repoFullName
              out  == BaseResponseOutcome(runs[k].contributorsRes[1], repo, zone)
          IN  /\ runs' = [runs EXCEPT
                            ![k].pc = IF out.threw THEN "settled" ELSE "body",
                            ![k].outcome = out]
              /\ console' = console \cup
                   (IF out.threw THEN BaseErrorLines(out.error, repo) ELSE {})
  /\ UNCHANGED << pageVars >>

\* contributorsRes.json() of a run settles: lines 171-199 and, of every
\* callback of limitedContributors.map, the part before its await; then the
\* await of Promise.all at line 314.
BaseBodySettles ==
  /\ \E k \in 1..Len(runs) :
       /\ runs[k].pc = "body"
       /\ LET repo    == runs[k].args.repoFullName
              out     == BaseDataOutcome(runs[k].contributorsRes[1].body)
              limited == LimitedContributors(out.data)
          IN  IF out.threw
              THEN /\ runs' = [runs EXCEPT ![k].pc = "settled", ![k].outcome = out]
                   /\ console' = console \cup BaseErrorLines(out.error, repo)
              ELSE /\ runs' = [runs EXCEPT
                        ![k].pc = "fanout",
                        ![k].contributorsData = out.data,
                        ![k].requests = runs[k].requests \o
                           DetailRequests(limited, repo, runs[k].args.githubToken),
                        ![k].sub = [i \in 1..Len(limited) |->
                           LET st == IF HasLogin(limited[i]) THEN "pending" ELSE "none"
                           IN  [user  |-> Unsettled(st, NoUserBody),
                                perm  |-> Unsettled(st, NoPermBody),
                                repos |-> Unsettled(st, NoReposBody)]],
                        ![k].slots = [i \in 1..Len(limited) |->
                           [done |-> ~HasLogin(limited[i]),
                            at |-> IF HasLogin(limited[i]) THEN "allSettled" ELSE "none",
                            isNull |-> TRUE, info |-> NullInfo]]]
                   /\ console' = console \cup ListLines(out.data, repo)
  /\ UNCHANGED << pageVars >>

\* The user-profile request of an entry settles, in its safeFetch.
UserSettles(responses) ==
  /\ \E k \in 1..Len(runs) :
       /\ runs[k].pc = "fanout"
       /\ \E i \in 1..Len(runs[k].sub), resp \in responses :
            /\ runs[k].sub[i].user.state = "pending"
            /\ LET url == Url("user", runs[k].contributorsData[i].login[1],
                              runs[k].args.repoFullName)
                   got == Fetch(runs[k].args.githubToken, resp)
               IN  /\ runs' = [runs EXCEPT ![k].sub[i].user = Settled(url, got)]
                   /\ console' = console \cup FetchLines(url, got)
  /\ UNCHANGED << pageVars >>

\* The permission request of an entry settles, in its safeFetch.
PermSettles(responses) ==
  /\ \E k \in 1..Len(runs) :
       /\ runs[k].pc = "fanout"
       /\ \E i \in 1..Len(runs[k].sub), resp \in responses :
            /\ runs[k].sub[i].perm.state = "pending"
            /\ LET url == Url("perm", runs[k].contributorsData[i].login[1],
                              runs[k].args.repoFullName)
                   got == Fetch(runs[k].args.githubToken, resp)
               IN  /\ runs' = [runs EXCEPT ![k].sub[i].perm = Settled(url, got)]
                   /\ console' = console \cup FetchLines(url, got)
  /\ UNCHANGED << pageVars >>

\* The user-repositories request of an entry settles, in its safeFetch.
ReposSettles(responses) ==
  /\ \E k \in 1..Len(runs) :
       /\ runs[k].pc = "fanout"
       /\ \E i \in 1..Len(runs[k].sub), resp \in responses :
            /\ runs[k].sub[i].repos.state = "pending"
            /\ LET url == Url("repos", runs[k].contributorsData[i].login[1],
                              runs[k].args.repoFullName)
                   got == Fetch(runs[k].args.githubToken, resp)
               IN  /\ runs' = [runs EXCEPT ![k].sub[i].repos = Settled(url, got)]
                   /\ console' = console \cup FetchLines(url, got)
  /\ UNCHANGED << pageVars >>

\* the results of three requests, as Promise.allSettled gives them
SettledResults(requests) ==
  [user  |-> requests.user.settled,
   perm  |-> requests.perm.settled,
   repos |-> requests.repos.settled]
\* the results of the three requests of entry i of a run
ResultsOf(run, i) == SettledResults(run.sub[i])

\* The callback of entry i of run k goes on at section from, its results
\* being results: it writes the warnings of the sections whose request was not
\* answered 2xx, up to the next body it reads, where it awaits json(); when
\* there is none it returns its record (lines 292-305).
Advance(k, i, results, from) ==
  LET run     == runs[k]
      limited == LimitedContributors(run.contributorsData)
      login   == limited[i].login[1]
      repo    == run.args.repoFullName
      next    == NextRead(results, from)
      out     == ProcessContributor(limited[i], results, repo)
  IN  /\ console' = console \cup
           SectionLines(login, repo, results, from, SectionIndex(next) - 1)
      /\ IF next = "end"
         THEN runs' = [runs EXCEPT
                          ![k].slots[i] = [done |-> TRUE, at |-> "end",
                                           isNull |-> out.isNull, info |-> out.info],
                          ![k].order = Append(run.order, i)]
         ELSE runs' = [runs EXCEPT ![k].slots[i].at = next]

\* The mutant of Process: a race, the callback goes on as soon as one of its
\* three requests has settled and takes the others as failed.
ProcessOnFirstSettled ==
  /\ \E k \in 1..Len(runs) :
       /\ runs[k].pc = "fanout"
       /\ \E i \in 1..Len(runs[k].slots) :
            /\ runs[k].slots[i].at = "allSettled"
            /\ \/ runs[k].sub[i].user.state = "settled"
               \/ runs[k].sub[i].perm.state = "settled"
               \/ runs[k].sub[i].repos.state = "settled"
            /\ Advance(k, i, ResultsOf(runs[k], i), 1)
  /\ UNCHANGED << pageVars >>

\* Promise.allSettled of one entry has resolved: lines 210-214 and on, up to
\* the first await of json() or the return of the record.
Process ==
  /\ \E k \in 1..Len(runs) :
       /\ runs[k].pc = "fanout"
       /\ \E i \in 1..Len(runs[k].slots) :
            /\ runs[k].slots[i].at = "allSettled"
            /\ runs[k].sub[i].user.state = "settled"
            /\ runs[k].sub[i].perm.state = "settled"
            /\ runs[k].sub[i].repos.state = "settled"
            /\ Advance(k, i, ResultsOf(runs[k], i), 1)
  /\ UNCHANGED << pageVars >>

\* json() of the body a callback reads (lines 215, 231, 267) settles: the
\* section goes wrong and the catch of lines 306-310 returns null, or the
\* section is done and the callback goes on after it.
BodySettles ==
  /\ \E k \in 1..Len(runs) :
       /\ runs[k].pc = "fanout"
       /\ \E i \in 1..Len(runs[k].slots) :
            LET section == runs[k].slots[i].at
                results == ResultsOf(runs[k], i)
            IN  /\ section \in {"user", "perm", "repos"}
                /\ IF BodyThrows(section, results[section].value.body)
                   THEN /\ runs' = [runs EXCEPT
                              ![k].slots[i] = [done |-> TRUE, at |-> "end",
                                               isNull |-> TRUE, info |-> NullInfo],
                              ![k].order = Append(runs[k].order, i)]
                        /\ console' = console \cup
                             { Log("github:308", <<>>,
                                   runs[k].contributorsData[i].login[1],
                                   BodyError(section, results[section].value.body), 0) }
                   ELSE Advance(k, i, results, SectionIndex(section) + 1)
  /\ UNCHANGED << pageVars >>

\* Promise.all of a run has resolved: lines 314-318.
Join ==
  /\ \E k \in 1..Len(runs) :
       /\ runs[k].pc = "fanout"
       /\ \A i \in 1..Len(runs[k].slots) : runs[k].slots[i].done
       /\ LET out == JoinOutcome(runs[k].slots, runs[k].order)
          IN  /\ runs' = [runs EXCEPT ![k].pc = "settled", ![k].outcome = out]
              /\ console' = console \cup
                   (IF out.threw THEN {}
                    ELSE { Log("github:317", runs[k].args.repoFullName, "", NoMsg,
                               Len(out.data)) })
  /\ UNCHANGED << pageVars >>

\* The await of getRepoContributors in the action is over: actions.ts 37-38,
\* or the catch block of lines 39-44.
ActionReturns ==
  /\ \E k \in 1..Len(runs) :
       /\ runs[k].pc = "settled"
       /\ LET out  == runs[k].outcome
              repo == runs[k].args.repoFullName
          IN  /\ runs' = [runs EXCEPT
                            ![k].pc = "returned",
                            ![k].result = IF out.threw THEN Failure(out.error)
                                          ELSE Success(out.data)]
              /\ console' = console \cup
                   { IF out.threw THEN Log("actions:40", repo, "", out.error, 0)
                     ELSE Log("actions:37", repo, "", NoMsg, Len(out.data)) }
  /\ UNCHANGED << pageVars >>

\* result.error || 'Failed to fetch contributor data. ...' (line 103)
ErrorMessageOf(result) ==
  IF result.error.kind \in {"none", "empty"} THEN Msg("FetchFailed") ELSE result.error

\* onSubmit finishes for submission s: the state it leaves (lines 88-130) and
\* isSubmitted, which handleSubmit sets once onSubmit is over.
Finish(s, stage, loading, list, selected, error, lines) ==
  /\ isLoading' = loading
  /\ isSubmitted' = TRUE
  /\ contributors' = list
  /\ selectedContributor' = selected
  /\ errorOccurred' = error
  /\ submissions' = [submissions EXCEPT ![s].stage = stage]
  /\ pageConsole' = pageConsole \cup lines
  /\ UNCHANGED repoName

\* the submissions whose call has resolved on the server and is awaited
Deliverable ==
  { s \in 1..Len(submissions) :
      /\ submissions[s].stage = "calling"
      /\ submissions[s].run # 0
      /\ runs[submissions[s].run].pc = "returned" }

\* the lines of onSubmit after the call has resolved: 86, 104 and 128
ResultLines(s, result) ==
  { Log("page:86", <<>>, "", result.error, Len(result.data)),
    Log("page:128", submissions[s].args.repoFullName, "", NoMsg, 0) } \cup
  (IF result.success THEN {}
   ELSE { Log("page:104", <<>>, "", ErrorMessageOf(result), 0) })

\* The mutant of Deliver: without the finally block, a {success: false} result
\* leaves the page loading.
DeliverLeavesLoadingOnFailure ==
  /\ \E s \in Deliverable :
       LET result == runs[submissions[s].run].result
       IN  IF result.success
           THEN Finish(s, "delivered", FALSE, result.data,
                       IF result.data = <<>> THEN None ELSE Some(result.data[1]),
                       errorOccurred, ResultLines(s, result))
           ELSE Finish(s, "delivered", TRUE, <<>>, None,
                       Some(ErrorMessageOf(result)), ResultLines(s, result))
  /\ UNCHANGED << runs, console >>

\* The mutant of Deliver: the last record is selected, not the first.
DeliverSelectsLast ==
  /\ \E s \in Deliverable :
       LET result == runs[submissions[s].run].result
       IN  IF result.success
           THEN Finish(s, "delivered", FALSE, result.data,
                       IF result.data = <<>> THEN None
                       ELSE Some(result.data[Len(result.data)]),
                       errorOccurred, ResultLines(s, result))
           ELSE Finish(s, "delivered", FALSE, <<>>, None,
                       Some(ErrorMessageOf(result)), ResultLines(s, result))
  /\ UNCHANGED << runs, console >>

\* The call of a submission resolves with the result the action returned:
\* onSubmit from line 86 to its end.
Deliver ==
  /\ \E s \in Deliverable :
       LET result == runs[submissions[s].run].result
       IN  IF result.success
           THEN Finish(s, "delivered", FALSE, result.data,
                       IF result.data = <<>> THEN None ELSE Some(result.data[1]),
                       errorOccurred, ResultLines(s, result))
           ELSE Finish(s, "delivered", FALSE, <<>>, None,
                       Some(ErrorMessageOf(result)), ResultLines(s, result))
  /\ UNCHANGED << runs, console >>

\* what a rejected call is rejected with: an Error with a message, or a value
\* that is no Error
Thrown(isError, message) == [isError |-> isError, message |-> message]
\* error instanceof Error ? error.message : 'An unexpected error occurred on
\* the client side.' (line 117)
ClientMessageOf(error) ==
  IF error.isError THEN error.message ELSE Msg("UnexpectedClient")

\* The call of a submission rejects, wherever the server is with it: the catch
\* block of onSubmit, and the finally block.
ActionCallFails(errors) ==
  /\ \E s \in 1..Len(submissions), error \in errors :
       /\ submissions[s].stage = "calling"
       /\ Finish(s, "failed", FALSE, <<>>, None, Some(ClientMessageOf(error)),
                 { Log("page:118", <<>>, "", error.message, 0),
                   Log("page:128", submissions[s].args.repoFullName, "", NoMsg, 0) })
  /\ UNCHANGED << runs, console >>

\* onClick of a contributor's button, which the results panel shows
SelectContributor ==
  /\ ~isLoading
  /\ \E i \in 1..Len(contributors) :
       selectedContributor' = Some(contributors[i])
  /\ UNCHANGED << isLoading, contributors, errorOccurred, repoName, isSubmitted,
                  submissions, pageConsole, runs, console >>

(***************************************************************************)
(* page.tsx: what is rendered.                                             *)
(***************************************************************************)
\* errorOccurred is truthy: a message that is not the empty string
HasError == errorOccurred # None /\ ~IsEmptyMessage(errorOccurred[1])
\* the results panel (line 212)
ResultsPanel == ~isLoading /\ Len(contributors) > 0
\* the "No Contributors Found" alert (line 347)
NoContributorsNotice ==
  ~isLoading /\ isSubmitted /\ Len(contributors) = 0 /\ ~HasError
\* the error alert (line 358)
ErrorAlert == ~isLoading /\ HasError
\* the submit button is enabled (line 183)
SubmitEnabled == ~isLoading

(***************************************************************************)
(* The inputs: what the user types, what the GitHub API answers.           *)
(***************************************************************************)
SeqsUpTo(S, n) == UNION { [1..k -> S] : k \in 0..n }

\* repository identifiers and the forms they are typed in
BareRepo == << "o","/","r" >>
OtherCaseRepo == << "O","/","r" >>
LongRepo == << "o","c","t","o","-","1","/","H","_","w" >>
Identifiers == { BareRepo, OtherCaseRepo, LongRepo }
UrlPrefixes == { <<>>, HttpsPrefix, HttpPrefix }
UrlSuffixes == { <<>>, DotGit, << "/" >>, DotGit \o << "/" >> }
WellFormedRepos ==
  { p \o id \o sfx : p \in UrlPrefixes, id \in Identifiers, sfx \in UrlSuffixes }
MalformedRepos ==
  { <<>>, << "o" >>, << "o","/" >>, << "/","r" >>, BareRepo \o << "/","/" >>,
    BareRepo \o << ".","g","i" >>, BareRepo \o << "/","x" >>,
    << "o","/","r",".","x" >>, << "o"," ","/","r" >>,
    << "g","i","t","h","u","b",".","c","o","m","/" >> \o BareRepo,
    << "f","t","p",":","/","/","g","i","t","h","u","b",".","c","o","m","/" >> \o BareRepo,
    HttpsPrefix, HttpsPrefix \o << "o" >> }

\* statusText of the statuses used
StatusTextOf(status) ==
  CASE status = 200 -> "OK"
    [] status = 204 -> "No Content"
    [] status = 304 -> "Not Modified"
    [] status = 401 -> "Unauthorized"
    [] status = 403 -> "Forbidden"
    [] status = 404 -> "Not Found"
    [] status = 500 -> "Internal Server Error"
    [] OTHER -> ""

Http(status, body) == Response(status, StatusTextOf(status), body)

\* entries of the base list
Entry(login, contributions) ==
  [isObject |-> TRUE, login |-> login, contributions |-> contributions]
NullEntry == [isObject |-> FALSE, login |-> None, contributions |-> None]
EntryA == Entry(Some("a"), Some(10))
EntryB == Entry(Some("b"), None)
NoLoginEntry == Entry(None, Some(3))
BaseList(items) == Http(200, [json |-> "array", items |-> items])

\* the base request failing: fetch rejects, or a status that is not 2xx, with
\* every combination of the two rate-limit headers
FailStatuses == { 304, 401, 403, 404, 500 }
RemainingHeaders == { None, Some("0"), Some("59") }
\* values of X-RateLimit-Reset: absent, empty, epoch seconds (of 1970, of the
\* present day, before the epoch, at both ends of and beyond the Date range),
\* digits behind white space or a sign or before other text, and no number
ResetHeaders ==
  { None, Some(<<>>), Some(<< "3","6","6","1" >>), Some(<< "9","0","0","6","1" >>),
    Some(<< "1","7","6","1","7","9","3","2","0","0" >>),
    Some(<< "-","1" >>), Some(<< "+","0","6","0" >>),
    Some(<< "-","8","6","4","0","0","0","0","0","0","0","0","0","0" >>),
    Some(<< "U+00A0","3","6","6","1" >>), Some(<< " ","\t","4","2","s" >>),
    Some(<< "8","6","4","0","0","0","0","0","0","0","0","0","0" >>),
    Some(<< "8","6","4","0","0","0","0","0","0","0","0","0","1" >>),
    Some(<< "9","9","9","9","9","9","9","9","9","9","9","9","9","9" >>),
    Some(<< "s","o","o","n" >>), Some(<< "-" >>), Some(<< "x","1" >>) }
BaseFailures ==
  { NetworkError(NoBaseBody), NetworkThrow(NoBaseBody) } \cup
  { [Http(st, NoBaseBody) EXCEPT !.remaining = rem, !.reset = rst] :
      st \in FailStatuses, rem \in RemainingHeaders, rst \in ResetHeaders }
\* a 2xx response whose body is no list
BaseUndecodable ==
  { Http(200, NoBaseBody), Http(204, NoBaseBody),
    Http(200, [json |-> "terminated", items |-> <<>>]),
    Http(200, [json |-> "nonarray", items |-> <<>>]) }

\* answers of GET /users/{username}
UserBody(email) == [json |-> "object", email |-> email]
UserResponsesSmall == { NetworkError(NoUserBody), Http(200, UserBody(Some("a@x"))) }
UserResponsesAll ==
  { NetworkError(NoUserBody), NetworkThrow(NoUserBody), Http(404, NoUserBody),
    Http(200, NoUserBody), Http(200, [json |-> "terminated", email |-> None]),
    Http(200, [json |-> "null", email |-> None]) } \cup
  { Http(200, UserBody(e)) : e \in { None, Some(""), Some("a@x") } }

\* answers of GET /repos/{repo}/collaborators/{username}/permission
PermBody(role_name, permission, permissions) ==
  [json |-> "object", role_name |-> role_name, permission |-> permission,
   permissions |-> permissions]
Flag(name, value) == [name |-> name, value |-> value]
FlagObjects ==
  { None,
    Some(<< Flag("admin", FALSE), Flag("push", TRUE), Flag("pull", TRUE) >>),
    Some(<< Flag("pull", FALSE) >>) }
PermResponsesSmall ==
  { Http(404, NoPermBody), Http(200, PermBody(None, Some("admin"), None)) }
PermFailures ==
  { NetworkError(NoPermBody), Http(404, NoPermBody), Http(403, NoPermBody),
    Http(500, NoPermBody) }
\* role names: one in ASCII, one whose first letter has its capital in
\* Latin-1, one whose first letter has a capital of two letters, the empty one
RoleNameAscii == << "m","a","i","n","t","a","i","n" >>
RoleNameLatin1 == << "U+00E9","d","i","t","o","r" >>
RoleNameSharpS == << "U+00DF","x" >>
\* role names whose first letter is of Latin Extended-A, a ligature, Greek,
\* Cyrillic, Greek with a capital of two code units, a full-width letter, a
\* letter without a capital, and a digit
RoleNamesOther ==
  { << "U+0101","d","m","i","n" >>, << "U+FB00","x" >>, << "U+03B1","U+03B2" >>,
    << "U+044F","a" >>, << "U+1F80" >>, << "U+FF41","b" >>, << "U+0138","a" >>,
    << "9","a" >> }
PermResponsesAll ==
  PermFailures \cup
  { Http(200, NoPermBody), Http(200, [NoPermBody EXCEPT !.json = "null"]),
    Http(200, PermBody(Some(RoleNameLatin1), Some("read"), None)),
    Http(200, PermBody(Some(RoleNameSharpS), None, None)),
    Http(200, PermBody(Some(<<>>), Some("read"), None)) } \cup
  { Http(200, PermBody(Some(rn), Some("read"), None)) : rn \in RoleNamesOther } \cup
  { Http(200, PermBody(rn, lv, fl)) :
      rn \in { None, Some(RoleNameAscii) },
      lv \in { None, Some("admin"), Some("write"), Some("read"), Some("triage") },
      fl \in FlagObjects }

\* answers of GET /users/{username}/repos
RepoItem(full_name, permissions) ==
  [isNull |-> FALSE, full_name |-> full_name,
   html_url |-> HttpsPrefix \o full_name, permissions |-> permissions]
NullItem == [isNull |-> TRUE, full_name |-> <<>>, html_url |-> <<>>, permissions |-> None]
OtherItem(i) ==
  RepoItem(IF i = 3 THEN OtherCaseRepo ELSE << "x", "/", ToString(i) >>,
           IF i % 3 = 0 THEN None
           ELSE Some([admin |-> i % 3 = 1, push |-> TRUE]))
\* n entries: the queried repository at position target, JSON null at position
\* hole (0: nowhere), other repositories elsewhere
RepoItems(n, target, hole) ==
  [i \in 1..n |-> IF i = target THEN RepoItem(BareRepo, None)
                  ELSE IF i = hole THEN NullItem
                  ELSE OtherItem(i)]
ReposBody(items) == [json |-> "array", items |-> items]
ReposResponsesSmall == { Http(200, ReposBody(RepoItems(2, 1, 0))) }
ReposResponsesAll ==
  { NetworkError(NoReposBody), Http(500, NoReposBody), Http(200, NoReposBody),
    Http(200, [json |-> "terminated", items |-> <<>>]),
    Http(200, [json |-> "nonarray", items |-> <<>>]) } \cup
  UNION { { Http(200, ReposBody(RepoItems(n, target, hole))) :
              target \in {0, 1, n}, hole \in {0, 2} } :
          n \in 0..(ReposPerPage + MaxOverPage) }

(***************************************************************************)
(* The specifications.  They share every step and differ in which inputs   *)
(* they explore in full.                                                   *)
(***************************************************************************)
\* Spec: every failure of the base request, and base lists of up to
\* MaxBaseLen entries whose detail requests settle in every order.
TypedRepos == { BareRepo, << "o" >> }
OneToken == { "t1" }
OneCall == { Arguments(BareRepo, "t1") }
\* what the call of the action is rejected with on the page
ClientErrors ==
  { Thrown(TRUE, Msg("ClientError")), Thrown(TRUE, Msg("empty")),
    Thrown(FALSE, NoMsg) }
BaseLists == { BaseList(l) : l \in SeqsUpTo({EntryA, EntryB, NoLoginEntry}, MaxBaseLen) }
\* a status that is not 2xx on a response whose body is a list
BaseFailuresWithList ==
  { Http(500, [json |-> "array", items |-> << EntryA >>]),
    Http(304, [json |-> "array", items |-> << EntryA, EntryB >>]) }
BaseResponses ==
  BaseFailures \cup BaseFailuresWithList \cup BaseUndecodable \cup BaseLists

Next ==
  \/ Submit(TypedRepos, OneToken, 1)
  \/ ActionReceives
  \/ DirectCall(OneCall, 1)
  \/ BaseFetchSettles(BaseResponses)
  \/ BaseSettles
  \/ BaseBodySettles
  \/ UserSettles(UserResponsesSmall)
  \/ PermSettles(PermResponsesSmall)
  \/ ReposSettles(ReposResponsesSmall)
  \/ Process
  \/ BodySettles
  \/ Join
  \/ ActionReturns
  \/ Deliver
  \/ ActionCallFails(ClientErrors)
  \/ SelectContributor

Spec == Init /\ [][Next]_vars

\* SpecDetail: the action called directly, the base list holding one
\* contributor, with every answer of its three detail requests.
DetailEntries ==
  { EntryA, Entry(Some("a"), Some(0)), Entry(Some("a"), None),
    Entry(Some(""), Some(1)), NoLoginEntry, NullEntry }

DetailLists == { BaseList(<< e >>) : e \in DetailEntries }
DetailBaseFailures ==
  { NetworkError(NoBaseBody), Http(404, NoBaseBody), Http(200, NoBaseBody),
    Http(200, [json |-> "nonarray", items |-> <<>>]) }
DetailBaseResponses == DetailLists \cup DetailBaseFailures

NextDetail ==
  \/ DirectCall(OneCall, 1)
  \/ BaseFetchSettles(DetailBaseResponses)
  \/ BaseSettles
  \/ BaseBodySettles
  \/ UserSettles(UserResponsesAll)
  \/ PermSettles(PermResponsesAll)
  \/ ReposSettles(ReposResponsesAll)
  \/ Process
  \/ BodySettles
  \/ Join
  \/ ActionReturns

SpecDetail == Init /\ [][NextDetail]_vars

\* SpecForm: every form of the repository input, on the page and in a direct
\* call of the action.
FormRepos == WellFormedRepos \cup MalformedRepos
FormTokens == { "", "t1", "t2" }
FormCalls ==
  { Arguments(r, t) :
      r \in { <<>>, BareRepo, << "o" >>, HttpsPrefix \o BareRepo },
      t \in FormTokens \cup { BrokenToken, WideToken } }
FormBaseResponses == { Http(404, NoBaseBody), BaseList(<<>>), BaseList(<< EntryA >>) }
FormUserResponses == { Http(200, UserBody(None)) }
FormPermResponses == { Http(404, NoPermBody) }
FormReposResponses == { Http(200, ReposBody(RepoItems(1, 1, 0))) }

NextForm ==
  \/ Submit(FormRepos, FormTokens, 1)
  \/ ActionReceives
  \/ DirectCall(FormCalls, 1)
  \/ BaseFetchSettles(FormBaseResponses)
  \/ BaseSettles
  \/ BaseBodySettles
  \/ UserSettles(FormUserResponses)
  \/ PermSettles(FormPermResponses)
  \/ ReposSettles(FormReposResponses)
  \/ Process
  \/ BodySettles
  \/ Join
  \/ ActionReturns
  \/ Deliver
  \/ ActionCallFails(ClientErrors)
  \/ SelectContributor

SpecForm == Init /\ [][NextForm]_vars

\* SpecPage: the page over several calls, one after the other or at the same
\* time as a direct call, up to MaxCalls calls.
PageRepos == { BareRepo, << "o" >> }
PageBaseResponses ==
  { Http(404, NoBaseBody), BaseList(<<>>), BaseList(<< EntryA, EntryB >>) }
PageUserResponses == { NetworkError(NoUserBody) }
PagePermResponses == { Http(404, NoPermBody) }
PageReposResponses == { Http(200, ReposBody(RepoItems(1, 0, 0))) }

NextPage ==
  \/ Submit(PageRepos, OneToken, MaxCalls)
  \/ ActionReceives
  \/ DirectCall(OneCall, MaxCalls)
  \/ BaseFetchSettles(PageBaseResponses)
  \/ BaseSettles
  \/ BaseBodySettles
  \/ UserSettles(PageUserResponses)
  \/ PermSettles(PagePermResponses)
  \/ ReposSettles(PageReposResponses)
  \/ Process
  \/ BodySettles
  \/ Join
  \/ ActionReturns
  \/ Deliver
  \/ ActionCallFails(ClientErrors)
  \/ SelectContributor

SpecPage == Init /\ [][NextPage]_vars

\* SpecPageLive: the page over MaxCalls calls where every call sent reaches
\* the server, every request in flight settles and every continuation that
\* can run does run: the action, the callbacks, the join, and onSubmit after
\* its await.
LiveBaseResponses == { Http(404, NoBaseBody), BaseList(<< EntryA >>) }
LiveClientErrors == { Thrown(TRUE, Msg("ClientError")) }

NextPageLive ==
  \/ Submit(PageRepos, OneToken, MaxCalls)
  \/ ActionReceives
  \/ DirectCall(OneCall, MaxCalls)
  \/ BaseFetchSettles(LiveBaseResponses)
  \/ BaseSettles
  \/ BaseBodySettles
  \/ UserSettles(PageUserResponses)
  \/ PermSettles(PagePermResponses)
  \/ ReposSettles(PageReposResponses)
  \/ Process
  \/ BodySettles
  \/ Join
  \/ ActionReturns
  \/ Deliver
  \/ ActionCallFails(LiveClientErrors)
  \/ SelectContributor

SpecPageLive ==
  /\ Init /\ [][NextPageLive]_vars
  /\ WF_vars(ActionReceives)
  /\ WF_vars(BaseFetchSettles(LiveBaseResponses))
  /\ WF_vars(BaseSettles)
  /\ WF_vars(BaseBodySettles)
  /\ WF_vars(UserSettles(PageUserResponses))
  /\ WF_vars(PermSettles(PagePermResponses))
  /\ WF_vars(ReposSettles(PageReposResponses))
  /\ WF_vars(Process)
  /\ WF_vars(BodySettles)
  /\ WF_vars(Join)
  /\ WF_vars(ActionReturns)
  /\ WF_vars(Deliver)

\* SpecPair: the action called directly, the base list holding two entries,
\* whose detail requests fail, are answered, or are
\* answered by a body that cannot be processed, in every combination and order.
PairLists ==
  { BaseList(<< EntryA, EntryB >>), BaseList(<< EntryB, EntryA >>),
    BaseList(<< EntryA, NoLoginEntry >>), BaseList(<< NullEntry, EntryB >>) }
PairUserResponses ==
  { NetworkError(NoUserBody), Http(200, NoUserBody), Http(200, UserBody(Some("a@x"))) }
PairPermResponses ==
  { Http(404, NoPermBody), Http(200, PermBody(None, Some("write"), None)) }
PairReposResponses ==
  { Http(500, NoReposBody), Http(200, ReposBody(RepoItems(2, 1, 0))),
    Http(200, ReposBody(RepoItems(2, 0, 2))) }

NextPair ==
  \/ DirectCall(OneCall, 1)
  \/ BaseFetchSettles(PairLists)
  \/ BaseSettles
  \/ BaseBodySettles
  \/ UserSettles(PairUserResponses)
  \/ PermSettles(PairPermResponses)
  \/ ReposSettles(PairReposResponses)
  \/ Process
  \/ BodySettles
  \/ Join
  \/ ActionReturns

SpecPair == Init /\ [][NextPair]_vars

\* SpecCap: one direct call on base lists around the processing cap.  The
\* entries at the positions of logins have the login "u<i>"; the others are
\* null or have no login, so that few callbacks have requests and these are
\* answered in every order.
CapEntry(i, logins) ==
  IF i \in logins THEN Entry(Some("u" \o ToString(i)), Some(i))
  ELSE IF i % 2 = 0 THEN NoLoginEntry ELSE NullEntry
CapList(n, logins) == [i \in 1..n |-> CapEntry(i, logins)]
CapLogins == SUBSET { 1, ProcessCap, ProcessCap + 1 }
CapLists ==
  { BaseList(CapList(n, logins)) :
      n \in (ProcessCap - 1)..(ProcessCap + MaxOverCap), logins \in CapLogins }
CapUserResponses == { Http(200, NoUserBody), Http(200, UserBody(Some("a@x"))) }
CapPermResponses ==
  { NetworkError(NoPermBody), Http(200, PermBody(None, Some("write"), None)) }
CapReposResponses == { Http(500, NoReposBody), Http(200, ReposBody(RepoItems(2, 1, 0))) }

NextCap ==
  \/ DirectCall(OneCall, 1)
  \/ BaseFetchSettles(CapLists)
  \/ BaseSettles
  \/ BaseBodySettles
  \/ UserSettles(CapUserResponses)
  \/ PermSettles(CapPermResponses)
  \/ ReposSettles(CapReposResponses)
  \/ Process
  \/ BodySettles
  \/ Join
  \/ ActionReturns

SpecCap == Init /\ [][NextCap]_vars

(***************************************************************************)
(* The claims.                                                             *)
(***************************************************************************)
\* what the formulas read off the state
RecordCount(r) == Len(r.result.data)
Processed(r) == 1..Len(r.sub)
LoginOf(r, i) == r.contributorsData[i].login[1]
UserOf(r, i) == r.sub[i].user.settled
PermOf(r, i) == r.sub[i].perm.settled
ReposOf(r, i) == r.sub[i].repos.settled
AllSettled(r, i) ==
  /\ r.sub[i].user.state = "settled"
  /\ r.sub[i].perm.state = "settled"
  /\ r.sub[i].repos.state = "settled"
\* the action has returned its result
Returned(r) == r.pc = "returned"
\* a request of entry i was answered 2xx by a body that cannot be processed:
\* not JSON, cut off while it is read, JSON null, or (the repositories) an
\* array with a null entry
Unprocessable(r, i) ==
  \/ /\ Succeeded(UserOf(r, i))
     /\ UserOf(r, i).value.body.json \in {"malformed", "terminated", "null"}
  \/ /\ Succeeded(PermOf(r, i))
     /\ PermOf(r, i).value.body.json \in {"malformed", "terminated", "null"}
  \/ /\ Succeeded(ReposOf(r, i))
     /\ \/ ReposOf(r, i).value.body.json \in {"malformed", "terminated"}
        \/ \E j \in 1..Len(ReposOf(r, i).value.body.items) :
             ReposOf(r, i).value.body.items[j].isNull

\* C1: the returned sequence has at most 50 records, every record carries the
\* login of an entry among the first 50 of the base list, and an entry at
\* position 51 or later yields neither a record nor a request.
C1_CappedAtFifty ==
  \A n \in 1..Len(runs) :
    LET r == runs[n]
    IN
      /\ Len(r.slots) <= 50
      /\ r.result.success =>
           /\ RecordCount(r) <= 50
           /\ RecordCount(r) <= Len(r.slots)
           /\ \A k \in 1..RecordCount(r) :
                \E i \in 1..Len(r.contributorsData) :
                  /\ i <= 50
                  /\ HasLogin(r.contributorsData[i])
                  /\ r.contributorsData[i].login[1] = r.result.data[k].username
      /\ \A i \in 51..Len(r.contributorsData) :
           HasLogin(r.contributorsData[i]) =>
             /\ r.result.success =>
                  \A k \in 1..RecordCount(r) :
                    r.result.data[k].username # r.contributorsData[i].login[1]
             /\ \A q \in 1..Len(r.requests) :
                  r.requests[q].login # r.contributorsData[i].login[1]

\* C1 witness: a list of more than 50 entries whose 1st, 50th and 51st have a
\* login; 50 callbacks, and the records of the 1st and the 50th returned.
C1_Witness ==
  \E n \in 1..Len(runs) :
    LET r == runs[n]
    IN
      /\ r.result.success
      /\ Len(r.contributorsData) > 50
      /\ HasLogin(r.contributorsData[51])
      /\ Len(r.slots) = 50
      /\ RecordCount(r) = 2
      /\ r.result.data[1].username = LoginOf(r, 1)
      /\ r.result.data[2].username = LoginOf(r, 50)

\* C2: whatever the order in which the callbacks resolved, the records are in
\* the order of their entries: the usernames and commit counts of the records
\* are those of an ascending selection of the truncated base list.
C2_OrderPreserved ==
  \A n \in 1..Len(runs) :
    LET r == runs[n]
    IN
      r.result.success =>
        \E S \in SUBSET (1..Len(r.slots)) :
          LET idx == SelectIdx([i \in 1..Len(r.slots) |-> i \in S], 1, Len(r.slots))
          IN  /\ Len(idx) = RecordCount(r)
              /\ \A k \in 1..RecordCount(r) :
                   /\ HasLogin(r.contributorsData[idx[k]])
                   /\ r.result.data[k].username = r.contributorsData[idx[k]].login[1]
                   /\ r.result.data[k].activities.commits
                        = CommitsOf(r.contributorsData[idx[k]])

\* C2 witness: two records of different contributors, the callback of the
\* second entry having resolved before that of the first.
C2_Witness ==
  \E n \in 1..Len(runs) :
    LET r == runs[n]
    IN
      /\ r.result.success
      /\ RecordCount(r) = 2
      /\ r.result.data[1].username # r.result.data[2].username
      /\ r.order = << 2, 1 >>

\* C3: no two records of the returned sequence have the same username.
C3_UniqueUsernames ==
  \A n \in 1..Len(runs) :
    LET r == runs[n]
    IN
      r.result.success =>
        \A j, k \in 1..RecordCount(r) :
          j # k => r.result.data[j].username # r.result.data[k].username

\* C4: no externalRepos entry of a returned record has the name of the
\* queried repository.
C4_TargetExcluded ==
  \A n \in 1..Len(runs) :
    LET r == runs[n]
    IN
      r.result.success =>
        \A k \in 1..RecordCount(r) :
          \A e \in 1..Len(r.result.data[k].externalRepos) :
            r.result.data[k].externalRepos[e].name # r.args.repoFullName

\* C4 witness: the user-repositories answer listed the queried repository
\* among others, and the record was returned.
C4_Witness ==
  \E n \in 1..Len(runs) :
    LET r == runs[n]
    IN
      /\ r.result.success
      /\ RecordCount(r) = 1
      /\ Len(r.result.data[1].externalRepos) >= 1
      /\ \E i \in Processed(r) :
           /\ Succeeded(ReposOf(r, i))
           /\ \E j \in 1..Len(ReposOf(r, i).value.body.items) :
                ReposOf(r, i).value.body.items[j].full_name = r.args.repoFullName

\* C5: externalRepos of a returned record has at most 5 entries, whatever
\* number of entries the user-repositories answer holds.
C5_AtMostFiveExternalRepos ==
  \A n \in 1..Len(runs) :
    LET r == runs[n]
    IN
      r.result.success =>
        \A k \in 1..RecordCount(r) : Len(r.result.data[k].externalRepos) <= 5

PermFailed(r, i) == r.sub[i].perm.state = "settled" /\ ~Succeeded(PermOf(r, i))
DefaultRoleRecord(r, i, k) ==
  /\ r.result.data[k].username = LoginOf(r, i)
  /\ r.result.data[k].roleInfo.role = RoleContributor
  /\ r.result.data[k].roleInfo.permissions = <<>>

\* C6 as stated: a failed permission lookup (404, another non-2xx status, a
\* network error) still gives the contributor a record, with role
\* "Contributor" and no permissions, and getRepoContributors does not raise.
C6_RecordDespitePermissionFailure ==
  \A n \in 1..Len(runs) :
    LET r == runs[n]
    IN
      \A i \in Processed(r) :
        (PermFailed(r, i) /\ Returned(r)) =>
          /\ r.result.success
          /\ \E k \in 1..RecordCount(r) : DefaultRoleRecord(r, i, k)

\* C6 amended: after a failed permission lookup getRepoContributors does not
\* raise; the contributor has a record with role "Contributor" and no
\* permissions unless processing its user-profile or user-repositories answer
\* raises (a body that is no JSON, is cut off, is null or holds a null entry),
\* and then its callback resolved to null.
C6_PermissionFailureDefaults ==
  \A n \in 1..Len(runs) :
    LET r == runs[n]
    IN
      \A i \in Processed(r) :
        (PermFailed(r, i) /\ Returned(r)) =>
          /\ r.result.success
          /\ IF Unprocessable(r, i)
             THEN r.slots[i].isNull
             ELSE /\ ~r.slots[i].isNull
                  /\ \E k \in 1..RecordCount(r) : DefaultRoleRecord(r, i, k)

\* C6 witness: the permission lookup answered 404 and the record was returned.
C6_Witness ==
  \E n \in 1..Len(runs) :
    LET r == runs[n]
    IN
      /\ r.pc = "returned"
      /\ r.result.success
      /\ RecordCount(r) = 1
      /\ \E i \in Processed(r) : PermFailed(r, i) /\ PermOf(r, i).value.status = 404

BaseRateLimited(r) ==
  /\ r.contributorsRes # None
  /\ r.contributorsRes[1].net = "ok"
  /\ r.contributorsRes[1].status = 403
  /\ r.contributorsRes[1].remaining = Some("0")

\* C7 as stated: a base answer of 403 with X-RateLimit-Remaining "0" gives
\* {success:false} whose message holds a reset time derived from the
\* X-RateLimit-Reset header, and no per-contributor request is issued.
C7_ResetTimeInMessage ==
  \A n \in 1..Len(runs) :
    LET r == runs[n]
    IN
      (BaseRateLimited(r) /\ Returned(r)) =>
        /\ ~r.result.success
        /\ r.result.error.kind = "RateLimit"
        /\ r.result.error.resetKind = "time"
        /\ Len(r.requests) = 1

\* the value of a run of at most five digits
RECURSIVE ShortValue(_)
ShortValue(d) == IF d = <<>> THEN 0 ELSE 10 * ShortValue(SubSeq(d, 1, Len(d) - 1)) + DigitVal(d[Len(d)])
\* t is the time of day, at one of the offsets, of the instant s seconds after the epoch
IsTimeOfDayOf(t, s) ==
  /\ Len(t) = 3
  /\ t[1] \in 0..23 /\ t[2] \in 0..59 /\ t[3] \in 0..59
  /\ \E zone \in TimeZones, days \in (0 - 1)..2 :
       s + zone = 86400 * days + 3600 * t[1] + 60 * t[2] + t[3]

\* C7 amended: the message is the rate-limit message and no per-contributor
\* request is issued; it holds "unknown time" when the X-RateLimit-Reset header
\* is absent or empty, "Invalid Date" when parseInt reads no number from the
\* header or one that is beyond the range of Date, and else the time of day,
\* at the offset the zone of the server has then, of the instant the number
\* gives in epoch seconds.
C7_RateLimitMessage ==
  \A n \in 1..Len(runs) :
    LET r == runs[n]
    IN
      (BaseRateLimited(r) /\ Returned(r)) =>
        LET hdr == r.contributorsRes[1].reset
            t   == r.result.error.resetTime
        IN  /\ ~r.result.success
            /\ r.result.error.kind = "RateLimit"
            /\ Len(r.requests) = 1
            /\ r.requests[1].endpoint = "contributors"
            /\ IF hdr = None \/ hdr = Some(<<>>)
               THEN r.result.error.resetKind = "unknown time"
               ELSE /\ r.result.error.resetKind \in {"time", "Invalid Date"}
                    /\ (r.result.error.resetKind = "time") =
                         (~ParseInt(hdr[1]).nan /\ IsDate(ParseInt(hdr[1])))
                    /\ (hdr[1][1] \notin Digit \cup WhiteSpace \cup {"+", "-"})
                         => r.result.error.resetKind = "Invalid Date"
                    /\ (Len(hdr[1]) > 13 /\ \A c \in 1..Len(hdr[1]) : hdr[1][c] \in Digit \ {"0"})
                         => r.result.error.resetKind = "Invalid Date"
                    /\ (Len(hdr[1]) <= 5 /\ \A c \in 1..Len(hdr[1]) : hdr[1][c] \in Digit)
                         => /\ r.result.error.resetKind = "time"
                            /\ IsTimeOfDayOf(t, ShortValue(hdr[1]))

\* C7 witness: the rate-limited answer carried X-RateLimit-Reset "1761793200",
\* 03:00:00 UTC, and the message of a server whose zone is 19800 seconds east
\* of UTC holds 08:30:00.
C7_Witness ==
  \E n \in 1..Len(runs) :
    LET r == runs[n]
    IN
      /\ r.pc = "returned"
      /\ BaseRateLimited(r)
      /\ r.contributorsRes[1].reset = Some(<< "1","7","6","1","7","9","3","2","0","0" >>)
      /\ r.result.error.resetTime = << 8, 30, 0 >>

\* C8: a non-2xx base answer gives {success:false} with the message of one
\* failure kind: 404 not-found naming the repository, else 401
\* unauthenticated, else 403 with rate-limit-remaining "0" rate-limited, else
\* 403 forbidden, else the generic message with the status and status text.
C8_FailureKindByPriority ==
  \A n \in 1..Len(runs) :
    LET r == runs[n]
    IN
      (Returned(r) /\ r.contributorsRes # None /\ r.contributorsRes[1].net = "ok"
         /\ (r.contributorsRes[1].status < 200 \/ r.contributorsRes[1].status > 299)) =>
        LET q == r.contributorsRes[1]
            e == r.result.error
        IN  /\ ~r.result.success
            /\ r.result.data = <<>>
            /\ e.kind \in {"NotFound", "AuthFailed", "RateLimit", "Forbidden", "ApiError"}
            /\ (e.kind = "NotFound") = (q.status = 404)
            /\ (e.kind = "AuthFailed") = (q.status = 401)
            /\ (e.kind = "RateLimit") = (q.status = 403 /\ q.remaining = Some("0"))
            /\ (e.kind = "Forbidden") = (q.status = 403 /\ q.remaining # Some("0"))
            /\ (e.kind = "ApiError") = (q.status \notin {401, 403, 404})
            /\ (e.kind = "NotFound") => (e.context = r.args.repoFullName)
            /\ (e.kind = "ApiError") =>
                 /\ e.context = r.args.repoFullName
                 /\ e.status = q.status
                 /\ e.statusText = q.statusText

\* C8 witness: a 404 that also carries the rate-limit headers of an exhausted
\* quota is reported as not found.
C8_Witness ==
  \E n \in 1..Len(runs) :
    LET r == runs[n]
    IN
      /\ r.pc = "returned"
      /\ r.contributorsRes # None
      /\ r.contributorsRes[1].status = 404
      /\ r.contributorsRes[1].remaining = Some("0")
      /\ r.result.error.kind = "NotFound"

\* C9: every form of an identifier (bare, behind http:// or https://github.com/,
\* with a trailing .git, a trailing slash or both) submitted with a token is
\* normalized to the identifier, which is what the action is called with and
\* what every request of the call names.
C9_FormIndependentNormalization ==
  \A s \in 1..Len(submissions) :
    \A id \in Identifiers, p \in UrlPrefixes, sfx \in UrlSuffixes :
      LET sb == submissions[s]
      IN  (sb.values.repo = p \o id \o sfx /\ sb.values.token # "") =>
            /\ sb.stage \in {"calling", "delivered", "failed"}
            /\ sb.args = Arguments(id, sb.values.token)
            /\ s = Len(submissions) => repoName = Some(id)
            /\ sb.run # 0 =>
                 /\ runs[sb.run].caller = "page"
                 /\ runs[sb.run].args.repoFullName = id
                 /\ runs[sb.run].requests # <<>>
                 /\ \A q \in 1..Len(runs[sb.run].requests) :
                      runs[sb.run].requests[q].repo = id

\* C9 witness: the https URL with .git and a slash was submitted and the
\* contributors request for the bare identifier is in flight.
C9_Witness ==
  \E s \in 1..Len(submissions) :
    /\ submissions[s].values.repo = HttpsPrefix \o LongRepo \o DotGit \o << "/" >>
    /\ submissions[s].run # 0
    /\ runs[submissions[s].run].pc = "base"
    /\ runs[submissions[s].run].args.repoFullName = LongRepo
    /\ runs[submissions[s].run].requests[1].repo = LongRepo

AllRejected(r, i) ==
  /\ AllSettled(r, i)
  /\ UserOf(r, i).status = "rejected"
  /\ PermOf(r, i).status = "rejected"
  /\ ReposOf(r, i).status = "rejected"

\* C10: when the three detail requests of a contributor fail with network
\* errors, its record is returned with role "Contributor", no permissions, no
\* external repositories, no e-mails, and the contributions of its entry as
\* commit count (0 when the entry has none).
C10_AllDetailsFailed ==
  \A n \in 1..Len(runs) :
    LET r == runs[n]
    IN
      \A i \in Processed(r) :
        (AllRejected(r, i) /\ Returned(r)) =>
          /\ r.result.success
          /\ \E k \in 1..RecordCount(r) :
               /\ r.result.data[k].username = LoginOf(r, i)
               /\ r.result.data[k].roleInfo = [role |-> RoleContributor, permissions |-> <<>>]
               /\ r.result.data[k].externalRepos = <<>>
               /\ r.result.data[k].emails = <<>>
               /\ r.result.data[k].activities.pullRequests = 0
               /\ r.result.data[k].activities.issuesOpened = 0
               /\ r.result.data[k].activities.commits =
                    IF r.contributorsData[i].contributions = None THEN 0
                    ELSE r.contributorsData[i].contributions[1]

\* C10 witness: the entry {login: "a", contributions: 10}, all three requests
\* rejected, one record with 10 commits.
C10_Witness ==
  \E n \in 1..Len(runs) :
    LET r == runs[n]
    IN
      /\ r.pc = "returned"
      /\ r.result.success
      /\ RecordCount(r) = 1
      /\ AllRejected(r, 1)
      /\ r.contributorsData[1] = EntryA
      /\ r.result.data[1].activities.commits = 10

\* the base request was answered, and how
BaseAnswered(r) == r.contributorsRes # None
BaseIsList(r) ==
  /\ BaseAnswered(r)
  /\ r.contributorsRes[1].net = "ok"
  /\ r.contributorsRes[1].status \in 200..299
  /\ r.contributorsRes[1].body.json = "array"
BaseFailed(r) == BaseAnswered(r) /\ ~BaseIsList(r)

\* C11: when the base request is answered by a list without entries, the
\* action returns {success: true, data: []} and the contributors request is the
\* only request issued; every result returned after a failed validation or a
\* failed base request has success false, so differs from it.
C11_EmptyListIsSuccess ==
  \A n \in 1..Len(runs) :
    LET r == runs[n]
    IN
      /\ (BaseIsList(r) /\ r.contributorsRes[1].body.items = <<>>) =>
            /\ Len(r.requests) = 1
            /\ r.requests[1].endpoint = "contributors"
            /\ Returned(r) => r.result = Success(<<>>)
      /\ (Returned(r) /\ (~BaseAnswered(r) \/ BaseFailed(r))) =>
            /\ ~r.result.success
            /\ r.result.error # NoMsg
            /\ r.result # Success(<<>>)

\* C11 witness: the base request answered 200 with [], and the action has
\* returned a success without records.
C11_Witness ==
  \E n \in 1..Len(runs) :
    LET r == runs[n]
    IN
      /\ r.pc = "returned"
      /\ BaseIsList(r)
      /\ r.contributorsRes[1].body.items = <<>>
      /\ r.result.success
      /\ r.result.data = <<>>

\* C12: whichever way the base request fails (fetch rejects, a status that is
\* not 2xx, a body that cannot be read or decoded, a body that is no list), the action
\* returns {success: false, error} with the message of the Error raised.
C12_FailureIsReturned ==
  \A n \in 1..Len(runs) :
    LET r == runs[n]
    IN
      (r.pc = "returned" /\ BaseFailed(r)) =>
        LET q == r.contributorsRes[1]
        IN  /\ r.result # NoResult
            /\ ~r.result.success
            /\ r.result.data = <<>>
            /\ r.result.error.kind # "none"
            /\ (q.net = "error") => r.result.error.kind = "Network"
            /\ (q.net = "thrown") => r.result.error.kind = "UnknownNetwork"
            /\ (q.net = "ok" /\ q.status \in 200..299 /\ q.body.json = "terminated") =>
                 r.result.error.kind = "BodyRead"
            /\ (q.net = "ok" /\ q.status \notin 200..299) =>
                 r.result.error.kind \in
                   {"NotFound", "AuthFailed", "RateLimit", "Forbidden", "ApiError"}
            /\ (q.net = "ok" /\ q.status \in 200..299 /\ q.body.json = "malformed") =>
                 r.result.error.kind = "JsonSyntax"
            /\ (q.net = "ok" /\ q.status \in 200..299 /\ q.body.json = "nonarray") =>
                 r.result.error.kind = "DataFormat"

\* C12 witness: the base request answered 200 with a body that is not JSON,
\* and the action has returned the failure.
C12_Witness ==
  \E n \in 1..Len(runs) :
    LET r == runs[n]
    IN
      /\ r.pc = "returned"
      /\ BaseAnswered(r)
      /\ r.contributorsRes[1].status = 200
      /\ r.contributorsRes[1].body.json = "malformed"
      /\ ~r.result.success
      /\ r.result.error.kind = "JsonSyntax"

\* C13: a call of the action with an empty repository string or an empty
\* token returns {success: false} with the messages of the failed checks, and
\* issues no request: getRepoContributors is not invoked.
C13_EmptyInputRejected ==
  \A n \in 1..Len(runs) :
    LET r == runs[n]
    IN
      (r.args.repoFullName = <<>> \/ r.args.githubToken = "") =>
        /\ r.pc = "returned"
        /\ ~r.result.success
        /\ r.result.data = <<>>
        /\ r.result.error.kind = "Validation"
        /\ r.result.error.issues # <<>>
        /\ (r.args.repoFullName = <<>>) =>
             r.result.error.issues[1] = "Repository name is required."
        /\ (r.args.githubToken = "") =>
             r.result.error.issues[Len(r.result.error.issues)] = "GitHub token is required."
        /\ r.requests = <<>>
        /\ ~BaseAnswered(r)
        /\ r.sub = <<>>

\* C13 witness: the action was called with a repository name and an empty
\* token, and has returned the validation failure.
C13_Witness ==
  \E n \in 1..Len(runs) :
    LET r == runs[n]
    IN
      /\ r.pc = "returned"
      /\ r.caller = "direct"
      /\ r.args.repoFullName = BareRepo
      /\ r.args.githubToken = ""
      /\ r.result.error.issues = << "GitHub token is required." >>
      /\ r.requests = <<>>

\* s is of the form owner/repo: the form's pattern accepts it and captures
\* the whole of it
IsOwnerRepo(s) == RepoMatch(s).matched /\ RepoMatch(s).group1 = s

\* C14: a call of the action with a repository string that is not of the
\* form owner/repo is rejected as invalid input, without any request, whether
\* the page or another client makes the call.
C14_MalformedRejected ==
  \A n \in 1..Len(runs) :
    LET r == runs[n]
    IN
      ~IsOwnerRepo(r.args.repoFullName) =>
        /\ r.requests = <<>>
        /\ r.pc = "returned"
        /\ ~r.result.success
        /\ r.result.error.kind = "Validation"

\* C15: once the action has returned, it reports a failure of
\* getRepoContributors only if the base request failed (fetch rejected, a
\* status that is not 2xx, a body that is no list); after a base request
\* answered by a list it reports success, whatever the three detail requests
\* answered and whatever the entry of the list is.
C15_RaisesOnlyOnBaseFailure ==
  \A n \in 1..Len(runs) :
    LET r == runs[n]
    IN
      Returned(r) =>
        /\ BaseIsList(r) => r.result.success
        /\ (~r.result.success /\ r.result.error.kind # "Validation") => BaseFailed(r)

\* C15 witness: the base list held one entry with a login, whose user answer
\* was 200 with an undecodable body and whose other requests failed; the
\* action returned success, without a record.
C15_Witness ==
  \E n \in 1..Len(runs) :
    LET r == runs[n]
    IN
      /\ r.pc = "returned"
      /\ BaseIsList(r)
      /\ Len(r.sub) = 1
      /\ AllSettled(r, 1)
      /\ Succeeded(UserOf(r, 1)) /\ UserOf(r, 1).value.body.json = "malformed"
      /\ ~Succeeded(PermOf(r, 1))
      /\ ~Succeeded(ReposOf(r, 1))
      /\ r.result.success
      /\ r.result.data = <<>>

DetailEndpoints == { "user", "perm", "repos" }

\* C16: the first request of a call is the contributors request; a request
\* to a per-contributor endpoint exists only after the contributors request
\* was answered with a 2xx status and a body that is a list, and none exists
\* while it is in flight or after it failed.
C16_FailFastOrdering ==
  \A n \in 1..Len(runs) :
    LET r == runs[n]
    IN
      /\ r.requests # <<>> => r.requests[1].endpoint = "contributors"
      /\ \A q \in 2..Len(r.requests) :
           /\ r.requests[q].endpoint \in DetailEndpoints
           /\ BaseIsList(r)
           /\ r.pc \notin {"base", "fetched", "body"}
      /\ r.pc \in {"base", "fetched", "body"} => Len(r.requests) = 1 /\ r.sub = <<>>
      /\ BaseFailed(r) => Len(r.requests) = 1 /\ r.sub = <<>> /\ r.pc # "fanout"

\* C16 witness: the contributors request answered 500 with a body that is a
\* list with an entry, and the call ended with that one request.
C16_Witness ==
  \E n \in 1..Len(runs) :
    LET r == runs[n]
    IN
      /\ r.pc = "returned"
      /\ BaseFailed(r)
      /\ r.contributorsRes[1].status = 500
      /\ r.contributorsRes[1].body.items = << EntryA >>
      /\ Len(r.requests) = 1
      /\ ~r.result.success

\* C17: a callback resolves only when its three requests have settled, and
\* getRepoContributors returns only when the requests of every processed
\* entry have settled; each part of a record follows from the outcome of its
\* own request alone: the e-mail of a profile that was answered, the role and
\* flags of a permission lookup that was answered, the repositories of a
\* listing that was answered, whether or not the other two requests failed.
C17_WaitForAll ==
  \A n \in 1..Len(runs) :
    LET r == runs[n]
    IN
      /\ (r.pc = "returned" /\ BaseIsList(r)) =>
           \A i \in Processed(r) :
             /\ r.slots[i].done
             /\ HasLogin(r.contributorsData[i]) => AllSettled(r, i)
      /\ \A i \in Processed(r) :
           r.slots[i].at \in {"user", "perm", "repos", "end"} => AllSettled(r, i)
      /\ \A i \in Processed(r) :
           (r.slots[i].done /\ HasLogin(r.contributorsData[i])) =>
             /\ AllSettled(r, i)
             /\ ~r.slots[i].isNull
             /\ r.slots[i].info.emails =
                  (IF Succeeded(UserOf(r, i)) THEN << "a@x" >> ELSE <<>>)
             /\ r.slots[i].info.roleInfo =
                  (IF Succeeded(PermOf(r, i))
                   THEN [role |-> RoleAdmin, permissions |-> << "admin", "push", "pull" >>]
                   ELSE [role |-> RoleContributor, permissions |-> <<>>])
             /\ Len(r.slots[i].info.externalRepos) = (IF Succeeded(ReposOf(r, i)) THEN 1 ELSE 0)

\* C17 witness: two contributors; the profile request of the first was
\* rejected and its permission lookup answered 404, while its repositories
\* were listed; the second had its profile and permission answered; both
\* records were returned.
C17_Witness ==
  \E n \in 1..Len(runs) :
    LET r == runs[n]
    IN
      /\ r.pc = "returned"
      /\ r.result.success
      /\ RecordCount(r) = 2
      /\ UserOf(r, 1).status = "rejected"
      /\ PermOf(r, 1).status = "fulfilled" /\ PermOf(r, 1).value.status = 404
      /\ Len(r.result.data[1].externalRepos) = 1
      /\ r.result.data[1].emails = <<>>
      /\ r.result.data[2].emails = << "a@x" >>
      /\ r.result.data[2].roleInfo.role = RoleAdmin

\* the entries whose callback resolved to a record, and the position of the
\* record of entry i in the returned sequence
Kept(r) == { i \in Processed(r) : r.slots[i].done /\ ~r.slots[i].isNull }
RecordIndex(r, i) == Cardinality({ j \in Kept(r) : j <= i })

\* C18: once getRepoContributors has returned, an entry with a login has no
\* record only if one of its requests was answered 2xx by a body that cannot
\* be processed; requests that were rejected or answered with another status
\* never lose it.  Every other entry with a login keeps its record, at its
\* place, with its own login, commit count, e-mail and role.
C18_DroppedOnlyOnProcessingError ==
  \A n \in 1..Len(runs) :
    LET r == runs[n]
    IN
      (r.pc = "returned" /\ BaseIsList(r)) =>
        /\ r.result.success
        /\ RecordCount(r) = Cardinality(Kept(r))
        /\ \A i \in Processed(r) :
             HasLogin(r.contributorsData[i]) =>
               /\ r.slots[i].isNull <=> Unprocessable(r, i)
               /\ ~Unprocessable(r, i) =>
                    LET rec == r.result.data[RecordIndex(r, i)]
                    IN  /\ rec.username = LoginOf(r, i)
                        /\ rec.activities.commits = CommitsOf(r.contributorsData[i])
                        /\ rec.emails =
                             (IF Succeeded(UserOf(r, i)) THEN << "a@x" >> ELSE <<>>)
                        /\ rec.roleInfo.role =
                             (IF Succeeded(PermOf(r, i)) THEN RoleMaintainer
                              ELSE RoleContributor)

\* C18 witness: of two contributors the first is dropped, its profile
\* answered 200 with an undecodable body; the second, all of whose requests
\* failed, is the one record returned.
C18_Witness ==
  \E n \in 1..Len(runs) :
    LET r == runs[n]
    IN
      /\ r.pc = "returned"
      /\ r.result.success
      /\ Len(r.sub) = 2
      /\ Succeeded(UserOf(r, 1)) /\ UserOf(r, 1).value.body.json = "malformed"
      /\ r.slots[1].isNull
      /\ UserOf(r, 2).status = "rejected"
      /\ PermOf(r, 2).value.status = 404
      /\ ReposOf(r, 2).value.status = 500
      /\ RecordCount(r) = 1
      /\ r.result.data[1].username = LoginOf(r, 2)

\* the requests of the call to one endpoint, and to one endpoint for one login
RequestsTo(r, endpoint) ==
  { q \in 1..Len(r.requests) : r.requests[q].endpoint = endpoint }
RequestsFor(r, endpoint, login) ==
  { q \in RequestsTo(r, endpoint) : r.requests[q].login = login }
MinOf(a, b) == IF a < b THEN a ELSE b

\* C19: a call that passed validation issues the contributors request
\* exactly once and, to each of the three per-contributor endpoints, at most
\* one request per processed entry; for a base list of n entries the requests
\* number at most 1 + 3 * min(n, 50), whatever was answered.
C19_NoRetries ==
  \A n \in 1..Len(runs) :
    LET r == runs[n]
    IN
      r.requests # <<>> =>
        /\ Cardinality(RequestsTo(r, "contributors")) = 1
        /\ Len(r.requests) <= 1 + 3 * MinOf(Len(r.contributorsData), 50)
        /\ \A e \in DetailEndpoints :
             /\ Cardinality(RequestsTo(r, e)) <= MinOf(Len(r.contributorsData), 50)
             /\ \A i \in 1..Len(r.contributorsData) :
                  HasLogin(r.contributorsData[i]) =>
                    Cardinality(RequestsFor(r, e, LoginOf(r, i))) <= 1

\* C19 witness: a list of more than 50 entries whose 1st, 50th and 51st have
\* a login; the permission request of the 1st was rejected and the repositories
\* request of the 50th answered 500; seven requests in all.
C19_Witness ==
  \E n \in 1..Len(runs) :
    LET r == runs[n]
    IN
      /\ r.pc = "returned"
      /\ Len(r.contributorsData) > 50
      /\ HasLogin(r.contributorsData[1])
      /\ HasLogin(r.contributorsData[50])
      /\ HasLogin(r.contributorsData[51])
      /\ PermOf(r, 1).status = "rejected"
      /\ ReposOf(r, 50).value.status = 500
      /\ Len(r.requests) = 7

\* the settled results of the requests of entry i, and every triple of
\* results its requests can have
OwnResults(r, i) == [user |-> UserOf(r, i), perm |-> PermOf(r, i), repos |-> ReposOf(r, i)]
PairAlternatives ==
  { [user |-> SafeFetch(NoUrl, u), perm |-> SafeFetch(NoUrl, p),
      repos |-> SafeFetch(NoUrl, q)] :
      u \in PairUserResponses, p \in PairPermResponses, q \in PairReposResponses }
\* what the callbacks resolve to in the run that differs from this one in the
\* results of entry a alone, which are alt
RerunSlots(r, a, alt) ==
  LET limited == LimitedContributors(r.contributorsData)
  IN  [i \in 1..Len(limited) |->
         IF HasLogin(limited[i])
         THEN ProcessContributor(limited[i],
                                 IF i = a THEN alt ELSE OwnResults(r, i),
                                 r.args.repoFullName)
         ELSE NullSlot]
RerunIndex(rs, b) == Cardinality({ j \in 1..b : ~rs[j].isNull })

\* C20: take a run that has returned and any other contributor a; in the
\* run that differs only in the outcomes of the three requests of a, every
\* other contributor b is dropped or kept as in this run, and its record is
\* the same.
C20_BranchIndependence ==
  \A n \in 1..Len(runs) :
    LET r == runs[n]
    IN
      (r.pc = "returned" /\ BaseIsList(r)) =>
        \A a \in Processed(r), b \in Processed(r) :
          (a # b /\ HasLogin(r.contributorsData[a]) /\ HasLogin(r.contributorsData[b])) =>
            \A alt \in PairAlternatives :
              LET rs    == RerunSlots(r, a, alt)
                  rerun == JoinOutcome(rs, r.order)
              IN  /\ ~rerun.threw
                  /\ rs[b].isNull = r.slots[b].isNull
                  /\ ~r.slots[b].isNull =>
                       rerun.data[RerunIndex(rs, b)] = r.result.data[RecordIndex(r, b)]

\* C20 witness: two contributors returned, the profile request of the first
\* rejected and that of the second answered with an e-mail, each record with
\* its own e-mails.
C20_Witness ==
  \E n \in 1..Len(runs) :
    LET r == runs[n]
    IN
      /\ r.pc = "returned"
      /\ r.result.success
      /\ RecordCount(r) = 2
      /\ UserOf(r, 1).status = "rejected"
      /\ Succeeded(UserOf(r, 2))
      /\ r.result.data[1].emails = <<>>
      /\ r.result.data[2].emails = << "a@x" >>

\* The reference mapping of a decoded permission answer: the role
RefRole(body) ==
  IF body.role_name = Some(<< "m","a","i","n","t","a","i","n" >>)
  THEN << "M","a","i","n","t","a","i","n" >>
  ELSE IF body.role_name = Some(<< "U+00E9","d","i","t","o","r" >>)
  THEN << "U+00C9","d","i","t","o","r" >>
  ELSE IF body.role_name = Some(<< "U+00DF","x" >>)
  THEN << "S","S","x" >>
  ELSE IF body.role_name = Some(<< "U+0101","d","m","i","n" >>)
  THEN << "U+0100","d","m","i","n" >>
  ELSE IF body.role_name = Some(<< "U+FB00","x" >>)
  THEN << "F","F","x" >>
  ELSE IF body.role_name = Some(<< "U+03B1","U+03B2" >>)
  THEN << "U+0391","U+03B2" >>
  ELSE IF body.role_name = Some(<< "U+044F","a" >>)
  THEN << "U+042F","a" >>
  ELSE IF body.role_name = Some(<< "U+1F80" >>)
  THEN << "U+1F08","U+0399" >>
  ELSE IF body.role_name = Some(<< "U+FF41","b" >>)
  THEN << "U+FF21","b" >>
  ELSE IF body.role_name = Some(<< "U+0138","a" >>)
  THEN << "U+0138","a" >>
  ELSE IF body.role_name = Some(<< "9","a" >>)
  THEN << "9","a" >>
  ELSE IF body.permission = Some("admin") THEN << "A","d","m","i","n" >>
  ELSE IF body.permission = Some("write")
  THEN << "M","a","i","n","t","a","i","n","e","r" >>
  ELSE IF body.permission = Some("read") THEN << "R","e","a","d" >>
  ELSE IF body.permission # None
  THEN << "C","o","l","l","a","b","o","r","a","t","o","r" >>
  ELSE << "C","o","n","t","r","i","b","u","t","o","r" >>
\* and the set of permissions
RefPermissions(body) ==
  IF body.permissions # None
  THEN { body.permissions[1][k].name : k \in
           { n \in 1..Len(body.permissions[1]) : body.permissions[1][n].value } }
  ELSE IF body.permission = Some("admin") THEN { "admin", "push", "pull" }
  ELSE IF body.permission = Some("write") THEN { "push", "pull" }
  ELSE IF body.permission = Some("read") THEN { "pull" }
  ELSE {}
PermAnswered(r, i) ==
  /\ r.sub[i].perm.state = "settled"
  /\ Succeeded(PermOf(r, i))
  /\ PermOf(r, i).value.body.json = "object"

\* C21: the record of a contributor whose permission lookup was answered
\* has the role and the permissions of the reference mapping: role_name
\* capitalized when present, else Admin, Maintainer, Read for the levels
\* admin, write, read and Collaborator for another level (Contributor when
\* the answer names no level); the flags that are true when the flags object
\* is present, else the flags the level implies.
C21_RoleMapping ==
  \A n \in 1..Len(runs) :
    LET r == runs[n]
    IN
      (r.pc = "returned" /\ BaseIsList(r)) =>
        \A i \in Processed(r) :
          (PermAnswered(r, i) /\ ~r.slots[i].isNull) =>
            LET rec == r.result.data[RecordIndex(r, i)]
                got == rec.roleInfo.permissions
            IN  /\ rec.username = LoginOf(r, i)
                /\ rec.roleInfo.role = RefRole(PermOf(r, i).value.body)
                /\ { got[k] : k \in 1..Len(got) } = RefPermissions(PermOf(r, i).value.body)
                /\ \A j, k \in 1..Len(got) : j # k => got[j] # got[k]

\* C21 witness: the lookup answered the level write without role_name and
\* without flags; the record has the role Maintainer and push and pull.
C21_Witness ==
  \E n \in 1..Len(runs) :
    LET r == runs[n]
    IN
      /\ r.pc = "returned"
      /\ r.result.success
      /\ RecordCount(r) = 1
      /\ PermAnswered(r, 1)
      /\ PermOf(r, 1).value.body.role_name = None
      /\ PermOf(r, 1).value.body.permission = Some("write")
      /\ PermOf(r, 1).value.body.permissions = None
      /\ r.result.data[1].roleInfo.role = RoleMaintainer
      /\ r.result.data[1].roleInfo.permissions = << "push", "pull" >>

BaseIsNonList(r) ==
  /\ BaseAnswered(r)
  /\ r.contributorsRes[1].net = "ok"
  /\ r.contributorsRes[1].status \in 200..299
  /\ r.contributorsRes[1].body.json = "nonarray"

\* C22: when the base request is answered 2xx with a body that decodes to
\* something that is no list, the call ends at once with the data-format
\* error: the action returns {success: false} with that message, and the
\* contributors request is the only request issued.
C22_NonListBody ==
  \A n \in 1..Len(runs) :
    LET r == runs[n]
    IN
      BaseIsNonList(r) =>
        /\ r.pc \in {"fetched", "body", "settled", "returned"}
        /\ r.pc = "settled" => r.outcome = Raises(Msg("DataFormat"))
        /\ r.pc = "returned" => r.result = Failure(Msg("DataFormat"))
        /\ Len(r.requests) = 1
        /\ r.requests[1].endpoint = "contributors"
        /\ r.contributorsData = <<>>
        /\ r.sub = <<>>

\* C22 witness: such an answer, and the failure returned to the page.
C22_Witness ==
  \E n \in 1..Len(runs) :
    LET r == runs[n]
    IN
      /\ BaseIsNonList(r)
      /\ r.pc = "returned"
      /\ r.caller = "page"
      /\ ~r.result.success
      /\ r.result.error.kind = "DataFormat"

\* the processed entries with a login
Valid(r) == { i \in Processed(r) : HasLogin(r.contributorsData[i]) }

\* C23: an entry of the base list that is null or has no login gets no
\* request and no record and does not make the call fail; the entries with a
\* login get their three requests each, and their records are returned with
\* their own login and commit count.
C23_InvalidEntrySkipped ==
  \A n \in 1..Len(runs) :
    LET r == runs[n]
    IN
      (BaseIsList(r) /\ r.pc \notin {"base", "fetched", "body"}) =>
        /\ \A i \in Processed(r) \ Valid(r) :
             /\ r.sub[i].user.state = "none"
             /\ r.sub[i].perm.state = "none"
             /\ r.sub[i].repos.state = "none"
             /\ r.slots[i].done /\ r.slots[i].isNull
        /\ Len(r.requests) = 1 + 3 * Cardinality(Valid(r))
        /\ \A q \in 2..Len(r.requests) :
             \E i \in Valid(r) : r.requests[q].login = LoginOf(r, i)
        /\ r.pc = "returned" =>
             /\ r.result.success
             /\ RecordCount(r) <= Cardinality(Valid(r))
             /\ \A i \in Valid(r) :
                  ~Unprocessable(r, i) =>
                    /\ r.result.data[RecordIndex(r, i)].username = LoginOf(r, i)
                    /\ r.result.data[RecordIndex(r, i)].activities.commits
                         = CommitsOf(r.contributorsData[i])

\* C23 witness: the base list [null, {login: "b"}]; the one record returned
\* is that of b, after four requests.
C23_Witness ==
  \E n \in 1..Len(runs) :
    LET r == runs[n]
    IN
      /\ r.pc = "returned"
      /\ Len(r.contributorsData) = 2
      /\ r.contributorsData[1] = NullEntry
      /\ r.result.success
      /\ RecordCount(r) = 1
      /\ r.result.data[1].username = "b"
      /\ Len(r.requests) = 4

\* C24: every returned record has a username that is not empty and is the
\* login of the entry of the base list it was made from.
C24_UsernameNonEmpty ==
  \A n \in 1..Len(runs) :
    LET r == runs[n]
    IN
      (r.pc = "returned" /\ BaseIsList(r)) =>
        \A i \in Kept(r) :
          /\ r.result.data[RecordIndex(r, i)].username = LoginOf(r, i)
          /\ r.result.data[RecordIndex(r, i)].username # ""

\* the last submission of the form, and the result its call resolved with
LastSubmission == submissions[Len(submissions)]
LastResult == runs[LastSubmission.run].result
\* the call of the last submission has settled and onSubmit is over: it
\* resolved (lines 88-113) or rejected (the catch of lines 115-126)
PageDone == submissions # <<>> /\ LastSubmission.stage \in {"delivered", "failed"}
\* the fetch of the last submission failed: its call rejected, or resolved
\* with {success: false}
FetchFailed ==
  \/ LastSubmission.stage = "failed"
  \/ LastSubmission.stage = "delivered" /\ ~LastResult.success
FetchSucceeded == LastSubmission.stage = "delivered" /\ LastResult.success

\* C25: the notice, the error alert and the results panel are never shown
\* two at a time; once a submission has completed, after a fetch that
\* succeeded without contributors the notice is shown and not the error
\* alert, and after a fetch that failed the error alert is shown and not the
\* notice.
C25_NoticeAndAlertExclusive ==
  /\ ~(NoContributorsNotice /\ ErrorAlert)
  /\ ~(NoContributorsNotice /\ ResultsPanel)
  /\ ~(ErrorAlert /\ ResultsPanel)
  /\ PageDone =>
       /\ (FetchSucceeded /\ LastResult.data = <<>>) =>
            NoContributorsNotice /\ ~ErrorAlert /\ ~ResultsPanel
       /\ (FetchSucceeded /\ LastResult.data # <<>>) =>
            ResultsPanel /\ ~ErrorAlert /\ ~NoContributorsNotice
       /\ FetchFailed =>
            ErrorAlert /\ ~NoContributorsNotice /\ ~ResultsPanel
       /\ (LastSubmission.stage = "delivered" /\ ~LastResult.success) =>
            errorOccurred = Some(LastResult.error)

OtherTokens == { "t1", "t2", "t3" }
\* The result and the requests of the call that has returned, computed anew
\* with the token t and the answers this call received, on a server in zone.
RunOf(r, t, zone) ==
  LET base   == << Request("contributors", "", r.args.repoFullName, t) >>
      issues == ValidationIssues(r.args.repoFullName, t)
      none   == [user  |-> SafeFetch(NoUrl, NetworkError(NoUserBody)),
                 perm  |-> SafeFetch(NoUrl, NetworkError(NoPermBody)),
                 repos |-> SafeFetch(NoUrl, NetworkError(NoReposBody))]
  IN  IF issues # <<>>
      THEN [result |-> Failure([Msg("Validation") EXCEPT !.issues = issues]),
            requests |-> <<>>]
      ELSE LET out == BaseOutcome(r.contributorsRes[1], r.args.repoFullName, zone)
           IN  IF out.threw
               THEN [result |-> Failure(out.error), requests |-> base]
               ELSE LET joined == JoinOutcome(RerunSlots(r, 0, none), r.order)
                    IN  [result |-> IF joined.threw THEN Failure(joined.error)
                                    ELSE Success(joined.data),
                         requests |-> base \o
                           DetailRequests(LimitedContributors(out.data),
                                          r.args.repoFullName, t)]

\* C26: the token of a call is the Authorization header of each of its
\* requests and nothing else: with any other token and the same answers the
\* call returns the same result and requests the same URLs; no login in a URL
\* or a log line, no username or e-mail of a record and no validation message
\* is the token; and no log line quotes the token, alone or in the header
\* made from it.
C26_TokenOnlyInHeader ==
  \A n \in 1..Len(runs) :
    LET r == runs[n]
    IN
      Returned(r) =>
        /\ \A q \in 1..Len(r.requests) : r.requests[q].auth = r.args.githubToken
        /\ \E zone \in TimeZones :
             /\ RunOf(r, r.args.githubToken, zone)
                  = [result |-> r.result, requests |-> r.requests]
             /\ r.args.githubToken # "" =>
                  \A t \in OtherTokens :
                    /\ RunOf(r, t, zone).result = r.result
                    /\ UrlsOf(RunOf(r, t, zone).requests) = UrlsOf(r.requests)
                    /\ \A q \in 1..Len(r.requests) :
                         RunOf(r, t, zone).requests[q].auth = t
        /\ r.args.githubToken # "" =>
             /\ \A q \in 1..Len(r.requests) : r.requests[q].login # r.args.githubToken
             /\ \A l \in console \cup pageConsole :
                  /\ l.login # r.args.githubToken
                  /\ l.error.url.login # r.args.githubToken
                  /\ l.error.quoted \notin
                       { r.args.githubToken, Authorization(r.args.githubToken) }
             /\ \A k \in 1..Len(r.result.data) :
                  /\ r.result.data[k].username # r.args.githubToken
                  /\ \A e \in 1..Len(r.result.data[k].emails) :
                       r.result.data[k].emails[e] # r.args.githubToken
             /\ \A m \in 1..Len(r.result.error.issues) :
                  r.result.error.issues[m] # r.args.githubToken

\* the entries with a login among the first 50 of the raw base list
FirstFiftyValid(r) ==
  { i \in 1..MinOf(Len(r.contributorsData), 50) : HasLogin(r.contributorsData[i]) }

\* C27: the cap is applied to the raw list: the callbacks are those of its
\* first 50 entries, skipped ones included; the records are at most as many
\* as the entries with a login among these, each record is made from one of
\* them, and an entry at position 51 or later gets no request and no record.
C27_TruncationBeforeValidation ==
  \A n \in 1..Len(runs) :
    LET r == runs[n]
    IN
      /\ (r.pc \in {"fanout", "settled", "returned"} /\ BaseIsList(r)) =>
           /\ Len(r.slots) = MinOf(Len(r.contributorsData), 50)
           /\ Len(r.requests) = 1 + 3 * Cardinality(FirstFiftyValid(r))
           /\ \A i \in 51..Len(r.contributorsData) :
                HasLogin(r.contributorsData[i]) =>
                  \A q \in 1..Len(r.requests) :
                    r.requests[q].login # r.contributorsData[i].login[1]
      /\ (r.pc = "returned" /\ BaseIsList(r)) =>
           /\ RecordCount(r) <= Cardinality(FirstFiftyValid(r))
           /\ \A k \in 1..RecordCount(r) :
                \E i \in FirstFiftyValid(r) :
                  r.contributorsData[i].login[1] = r.result.data[k].username
           /\ \A i \in 51..Len(r.contributorsData) :
                HasLogin(r.contributorsData[i]) =>
                  \A k \in 1..RecordCount(r) :
                    r.result.data[k].username # r.contributorsData[i].login[1]

\* C27 witness: 52 entries of which the 1st and the 51st have a login and the
\* 50th has none; the callback of the 1st was dropped over an undecodable
\* body; no record is returned and the 51st got no request.
C27_Witness ==
  \E n \in 1..Len(runs) :
    LET r == runs[n]
    IN
      /\ r.pc = "returned"
      /\ Len(r.contributorsData) = 52
      /\ HasLogin(r.contributorsData[1])
      /\ ~HasLogin(r.contributorsData[50])
      /\ HasLogin(r.contributorsData[51])
      /\ r.slots[1].isNull
      /\ r.result.success
      /\ RecordCount(r) = 0
      /\ Len(r.requests) = 4

\* the selection is nothing or one of the contributors shown, and nothing
\* when no contributor is shown or an error is recorded
SelectionWithinList ==
  /\ \/ selectedContributor = None
     \/ \E i \in 1..Len(contributors) : selectedContributor = Some(contributors[i])
  /\ (contributors = <<>> \/ errorOccurred # None) => selectedContributor = None
\* a step that ends the loading with contributors to show
SuccessfulFetchEnds == isLoading /\ ~isLoading' /\ contributors' # <<>>

\* C28: whenever the page is not loading, the selected contributor is null
\* or an element of the contributors list, and null when the list is empty or
\* an error is recorded; the step that ends a fetch with contributors leaves
\* the first returned record selected.
C28_SelectionInList ==
  /\ [](~isLoading => SelectionWithinList)
  /\ [][SuccessfulFetchEnds =>
          \E s \in Deliverable :
            /\ submissions'[s].stage = "delivered"
            /\ contributors' = runs[submissions[s].run].result.data
            /\ selectedContributor' = Some(runs[submissions[s].run].result.data[1])]_vars

\* C28 witness: two contributors are shown and the second one is selected.
C28_Witness ==
  /\ ~isLoading
  /\ Len(contributors) = 2
  /\ contributors[1] # contributors[2]
  /\ selectedContributor = Some(contributors[2])

\* the submissions whose call of the action has not settled on the page
Calling == { s \in 1..Len(submissions) : submissions[s].stage = "calling" }

\* C29: a page that is loading stops loading, whichever way the call ends;
\* while it loads the submit button is disabled and the call of the last
\* submission is the one call of the page that has not settled, and no step
\* starts another submission or changes the arguments of the call.
C29_LoadingEnds ==
  /\ isLoading ~> ~isLoading
  /\ [](isLoading => (~SubmitEnabled /\ Calling = { Len(submissions) }))
  /\ [](Cardinality(Calling) <= 1)
  /\ [][isLoading =>
          /\ Len(submissions') = Len(submissions)
          /\ \A s \in 1..Len(submissions) :
               /\ submissions'[s].values = submissions[s].values
               /\ submissions'[s].args = submissions[s].args]_vars

\* C29 witness: the page is loading for its second submission, the first
\* having ended with a rejected call, while the contributors request of the
\* second call is in flight.
C29_Witness ==
  /\ isLoading
  /\ Len(submissions) = 2
  /\ submissions[1].stage = "failed"
  /\ submissions[2].run # 0
  /\ runs[submissions[2].run].pc = "base"

\* C30: the "No Contributors Found" notice is shown only when the values
\* last submitted passed the form's validation, the page called the action
\* with them, and the action returned {success: true} with an empty list.
C30_NoticeOnlyAfterEmptySuccess ==
  NoContributorsNotice =>
    /\ submissions # <<>>
    /\ FormValid(LastSubmission.values.repo, LastSubmission.values.token)
    /\ LastSubmission.stage = "delivered"
    /\ LastSubmission.run # 0
    /\ runs[LastSubmission.run].requests # <<>>
    /\ LastResult = Success(<<>>)

====
